---- MODULE Spec2Model ----
(***************************************************************************)
(* The event-sourced state engine of save-app (src/src/app.ts): the        *)
(* waterfall projection, the action reducer, the snapshot builder, the     *)
(* history merge and the undo/redo controller.                             *)
(*                                                                         *)
(* Numbers.  Timestamps are whole milliseconds (what Date.now() and        *)
(* toISOString() carry).  Currency is a JavaScript number; the model uses  *)
(* integers and draws its inputs (rates that divide MsPerDay, times on a   *)
(* whole-day grid) so that every product and quotient the code computes is *)
(* an integer, hence exact.                                                *)
(*                                                                         *)
(* Hashes.  md5Hash is modelled as an injective function: the digest of    *)
(* JSON.stringify([prev, content]) is the pair <<prev, content>> itself.   *)
(*                                                                         *)
(* produce (immer) is modelled as the source reads: the result is what the *)
(* recipe returns when it returns a value, else the mutated draft.         *)
(***************************************************************************)
EXTENDS Integers, Sequences, FiniteSets, TLC

VARIABLES
    now,          \* Date.now(), ms
    g,            \* the Globals: snapshot, actions, undoHistory, undoIndex, and
                  \* nextId, the number of ids uuidv4() has handed out
    before,       \* the snapshot handed to the last projection() call
    origin,       \* the Globals the behaviour started from
    lastOp,       \* the handler that ran last
    net           \* what lies beyond this session: the other devices' states
                  \* and the outcome of the last mergeStates call

vars == <<now, g, before, origin, lastOp, net>>

----------------------------------------------------------------------------
(* Values *)

MsPerDay == 86400000

\* JavaScript Infinity (a time that is never reached)
Infinity == 2000000000

\* JavaScript null in a timestamp field
Null == -1

\* the serialized form of Infinity, the string 'never'
Never == -2

\* JavaScript undefined in a string field
Undefined == "undefined"

\* the id '' of emptyState()
NoId == 0

Max(a, b) == IF a >= b THEN a ELSE b
Min(a, b) == IF a <= b THEN a ELSE b

serializeDate(date) == IF date = Infinity THEN Never ELSE date

deserializeDate(date) == IF date = Never THEN Infinity ELSE date

\* budget -> dollars per day
\* (12 / 365.25 = 48 / 1461; any other unit throws: the CASE has no arm for it)
getAllocatedRate(budget) ==
    CASE budget.unit = "/month" -> (budget.dollars * 48) \div 1461
      [] budget.unit = "/day" -> budget.dollars

\* rateInDollarsPerMs(rate) * ms = rate * ms / MsPerDay, split into whole days,
\* whole hours and the rest so that every product stays small; exact when the
\* result is a whole number
MoneyOver(rate, ms) ==
    rate * (ms \div MsPerDay)
      + (rate * ((ms % MsPerDay) \div (MsPerDay \div 24))
           + (rate * ((ms % MsPerDay) % (MsPerDay \div 24))) \div (MsPerDay \div 24)) \div 24

\* cost / rateInDollarsPerMs(rate) = cost * MsPerDay / rate for rate # 0, split
\* the same way; a fraction of a millisecond is dropped, as new Date() drops it
\* when the time is serialized
TimeToSave(cost, rate) == cost * (MsPerDay \div rate) + (cost * (MsPerDay % rate)) \div rate

\* x + y in floating point, where either may be Infinity
AddTime(x, y) == IF x = Infinity \/ y = Infinity THEN Infinity ELSE x + y

\* JavaScript truthiness of a time: neither null nor 0
Truthy(t) == t # Null /\ t # 0

\* if (!timeOfNextNonlinearity || timeCursor < timeOfNextNonlinearity)
EarlierNonlinearity(timeOfNextNonlinearity, timeCursor) ==
    IF ~Truthy(timeOfNextNonlinearity) \/ timeCursor < timeOfNextNonlinearity
    THEN timeCursor ELSE timeOfNextNonlinearity

----------------------------------------------------------------------------
(* Projection Engine *)

\* one step of the waterfall: the body of `for (const item of list.items)`
\* (mutant: a funded item's cost is not taken out of the pool)
ProjectItemNoDeduct(w, item, allocatedRate) ==
    LET remainingCost == item.price - item.saved.value
        timeCursor == AddTime(w.timeCursor,
                        IF allocatedRate # 0 THEN TimeToSave(remainingCost, allocatedRate)
                        ELSE Infinity)
        named == [item EXCEPT !.name = IF @ = Undefined THEN "Item" ELSE @]
    IN  IF w.remainingMoneyToAllocate >= remainingCost
        THEN [w EXCEPT
                !.items = Append(@, [named EXCEPT !.saved = [value |-> item.price, rate |-> 0],
                                                  !.expectedDate = Null]),
                !.timeCursor = timeCursor]
        ELSE [w EXCEPT
                !.items = Append(@, [named EXCEPT
                              !.saved = [value |-> item.saved.value + w.remainingMoneyToAllocate,
                                         rate |-> w.overflowRate],
                              !.expectedDate = serializeDate(timeCursor)]),
                !.timeCursor = timeCursor,
                !.timeOfNextNonlinearity = EarlierNonlinearity(@, timeCursor)]

\* (mutant: a part-funded item does not exhaust the pool)
ProjectItemNoExhaust(w, item, allocatedRate) ==
    LET remainingCost == item.price - item.saved.value
        timeCursor == AddTime(w.timeCursor,
                        IF allocatedRate # 0 THEN TimeToSave(remainingCost, allocatedRate)
                        ELSE Infinity)
        named == [item EXCEPT !.name = IF @ = Undefined THEN "Item" ELSE @]
    IN  IF w.remainingMoneyToAllocate >= remainingCost
        THEN [w EXCEPT
                !.items = Append(@, [named EXCEPT !.saved = [value |-> item.price, rate |-> 0],
                                                  !.expectedDate = Null]),
                !.timeCursor = timeCursor,
                !.remainingMoneyToAllocate = @ - remainingCost]
        ELSE [w EXCEPT
                !.items = Append(@, [named EXCEPT
                              !.saved = [value |-> item.saved.value + w.remainingMoneyToAllocate,
                                         rate |-> w.overflowRate],
                              !.expectedDate = serializeDate(timeCursor)]),
                !.timeCursor = timeCursor,
                !.timeOfNextNonlinearity = EarlierNonlinearity(@, timeCursor)]

\* (mutant: an item takes all the money in the pool, whatever its price)
ProjectItemNoCap(w, item, allocatedRate) ==
    LET remainingCost == item.price - item.saved.value
        timeCursor == AddTime(w.timeCursor,
                        IF allocatedRate # 0 THEN TimeToSave(remainingCost, allocatedRate)
                        ELSE Infinity)
        named == [item EXCEPT !.name = IF @ = Undefined THEN "Item" ELSE @]
    IN  [w EXCEPT
            !.items = Append(@, [named EXCEPT
                          !.saved = [value |-> item.saved.value + w.remainingMoneyToAllocate,
                                     rate |-> w.overflowRate],
                          !.expectedDate = serializeDate(timeCursor)]),
            !.timeCursor = timeCursor,
            !.remainingMoneyToAllocate = 0,
            !.overflowRate = 0,
            !.timeOfNextNonlinearity = EarlierNonlinearity(@, timeCursor)]

ProjectItem(w, item, allocatedRate) ==
    LET remainingCost == item.price - item.saved.value
        timeCursor == AddTime(w.timeCursor,
                        IF allocatedRate # 0 THEN TimeToSave(remainingCost, allocatedRate)
                        ELSE Infinity)
        named == [item EXCEPT !.name = IF @ = Undefined THEN "Item" ELSE @]
    IN  IF w.remainingMoneyToAllocate >= remainingCost
        THEN [w EXCEPT
                !.items = Append(@, [named EXCEPT !.saved = [value |-> item.price, rate |-> 0],
                                                  !.expectedDate = Null]),
                !.timeCursor = timeCursor,
                !.remainingMoneyToAllocate = @ - remainingCost]
        ELSE [w EXCEPT
                !.items = Append(@, [named EXCEPT
                              !.saved = [value |-> item.saved.value + w.remainingMoneyToAllocate,
                                         rate |-> w.overflowRate],
                              !.expectedDate = serializeDate(timeCursor)]),
                !.timeCursor = timeCursor,
                !.remainingMoneyToAllocate = 0,
                !.overflowRate = 0,
                !.timeOfNextNonlinearity = EarlierNonlinearity(@, timeCursor)]

RECURSIVE ProjectItems(_, _, _)
ProjectItems(w, items, allocatedRate) ==
    IF items = << >> THEN w
    ELSE ProjectItems(ProjectItem(w, Head(items), allocatedRate), Tail(items), allocatedRate)

\* the end of the body of `for (const list of state.lists)`: list.items
\* and list.kitty once the item loop is through
\* (mutant: the debt's rate is not given back to the kitty)
ListProjectedForgetsDebtRate(list, debt, debtRate, w) ==
    [list |-> [list EXCEPT
                 !.items = w.items,
                 !.kitty = [value |-> w.remainingMoneyToAllocate - debt,
                            rate |-> w.overflowRate]],
     timeOfNextNonlinearity |-> w.timeOfNextNonlinearity]

ListProjected(list, debt, debtRate, w) ==
    [list |-> [list EXCEPT
                 !.items = w.items,
                 !.kitty = [value |-> w.remainingMoneyToAllocate - debt,
                            rate |-> w.overflowRate - debtRate]],
     timeOfNextNonlinearity |-> w.timeOfNextNonlinearity]

\* what the item loop starts from: a list in debt has nothing to allocate and
\* its cursor at the time the debt is paid off
WaterfallStart(lastCommitTime, timeOfNextNonlinearity, allocatedRate, money, paidOff) ==
    IF money < 0
    THEN [items |-> << >>,
          timeCursor |-> paidOff,
          remainingMoneyToAllocate |-> 0,
          overflowRate |-> 0,
          timeOfNextNonlinearity |-> EarlierNonlinearity(timeOfNextNonlinearity, paidOff)]
    ELSE [items |-> << >>,
          timeCursor |-> lastCommitTime,
          remainingMoneyToAllocate |-> money,
          overflowRate |-> allocatedRate,
          timeOfNextNonlinearity |-> timeOfNextNonlinearity]

\* the body of `for (const list of state.lists)` from the debt branch on,
\* money being list.kitty.value plus what the budget brought in
ProjectListWithMoney(list, lastCommitTime, timeOfNextNonlinearity, allocatedRate, money) ==
    LET debt == IF money < 0 THEN -money ELSE 0
        debtRate == IF money < 0 THEN -allocatedRate ELSE 0
        paidOff == AddTime(lastCommitTime,
                     IF allocatedRate # 0 THEN TimeToSave(debt, allocatedRate) ELSE Infinity)
    IN  ListProjected(list, debt, debtRate,
            ProjectItems(WaterfallStart(lastCommitTime, timeOfNextNonlinearity,
                                        allocatedRate, money, paidOff),
                         list.items, allocatedRate))

\* (mutant: a list in debt hands its income to the items and keeps the debt)
ProjectListWithRateItemsFirst(list, lastCommitTime, toTime, timeOfNextNonlinearity, allocatedRate) ==
    IF list.kitty.value < 0
    THEN [ProjectListWithMoney(list, lastCommitTime, timeOfNextNonlinearity, allocatedRate,
                               MoneyOver(allocatedRate, toTime - lastCommitTime))
            EXCEPT !.list.kitty.value = @ + list.kitty.value]
    ELSE ProjectListWithMoney(list, lastCommitTime, timeOfNextNonlinearity, allocatedRate,
             list.kitty.value + MoneyOver(allocatedRate, toTime - lastCommitTime))

ProjectListWithRate(list, lastCommitTime, toTime, timeOfNextNonlinearity, allocatedRate) ==
    ProjectListWithMoney(list, lastCommitTime, timeOfNextNonlinearity, allocatedRate,
        list.kitty.value + MoneyOver(allocatedRate, toTime - lastCommitTime))

\* the body of `for (const list of state.lists)`: the projected list and the
\* running timeOfNextNonlinearity
ProjectList(list, lastCommitTime, toTime, timeOfNextNonlinearity) ==
    ProjectListWithRate(list, lastCommitTime, toTime, timeOfNextNonlinearity,
                        getAllocatedRate(list.budget))

ListsProjected(acc, r) ==
    [lists |-> Append(acc.lists, r.list), timeOfNextNonlinearity |-> r.timeOfNextNonlinearity]

RECURSIVE ProjectLists(_, _, _, _)
ProjectLists(acc, lists, lastCommitTime, toTime) ==
    IF lists = << >> THEN acc
    ELSE ProjectLists(ListsProjected(acc, ProjectList(Head(lists), lastCommitTime, toTime,
                                                      acc.timeOfNextNonlinearity)),
                      Tail(lists), lastCommitTime, toTime)

\* (mutant: state.time stays at the last commit time)
StateProjectedKeepsTime(state, toTime, r) ==
    [state EXCEPT
        !.lists = r.lists,
        !.nextNonlinearity = IF Truthy(r.timeOfNextNonlinearity)
                             THEN serializeDate(r.timeOfNextNonlinearity)
                             ELSE Null]

\* the end of mutatingProjection: state.time and state.nextNonlinearity
StateProjected(state, toTime, r) ==
    [state EXCEPT
        !.lists = r.lists,
        !.time = serializeDate(toTime),
        !.nextNonlinearity = IF Truthy(r.timeOfNextNonlinearity)
                             THEN serializeDate(r.timeOfNextNonlinearity)
                             ELSE Null]

mutatingProjection(state, toTime) ==
    StateProjected(state, toTime,
        ProjectLists([lists |-> << >>, timeOfNextNonlinearity |-> Null],
                     state.lists, deserializeDate(state.time), toTime))

projection(state, toTime) == mutatingProjection(state, toTime)

----------------------------------------------------------------------------
(* Hash Chain *)

emptyHash == << >>

\* const { hash, ...contentToHash } = action
ContentToHash(action) == [f \in DOMAIN action \ {"hash"} |-> action[f]]

calculateActionHash(prevActionHash, action) == <<prevActionHash, ContentToHash(action)>>

\* { ...actionWithoutHash, hash }
WithHash(action, hash) == [f \in DOMAIN action \cup {"hash"} |->
                              IF f = "hash" THEN hash ELSE action[f]]

historyHash(history) ==
    IF history = << >> THEN emptyHash ELSE history[Len(history)].hash

----------------------------------------------------------------------------
(* Action Reducer *)

RemoveAt(seq, i) == SubSeq(seq, 1, i - 1) \o SubSeq(seq, i + 1, Len(seq))

\* seq.splice(index, 0, x), index counted from 0
InsertAt(seq, index, x) ==
    SubSeq(seq, 1, Min(index, Len(seq))) \o <<x>> \o SubSeq(seq, Min(index, Len(seq)) + 1, Len(seq))

\* snapshot.lists.findIndex(l => l.id === id), counted from 1; 0 when absent
findList(lists, id) ==
    IF \E i \in 1..Len(lists) : lists[i].id = id
    THEN CHOOSE i \in 1..Len(lists) :
            lists[i].id = id /\ \A k \in 1..(i - 1) : lists[k].id # id
    ELSE 0

ItemIndex(items, id) ==
    IF \E j \in 1..Len(items) : items[j].id = id
    THEN CHOOSE j \in 1..Len(items) :
            items[j].id = id /\ \A k \in 1..(j - 1) : items[k].id # id
    ELSE 0

\* the first list holding an item of this id, and the item's place in it;
\* <<0, 0>> when no list holds one
findItem(lists, id) ==
    IF \E i \in 1..Len(lists) : ItemIndex(lists[i].items, id) # 0
    THEN LET i == CHOOSE i \in 1..Len(lists) :
                    /\ ItemIndex(lists[i].items, id) # 0
                    /\ \A k \in 1..(i - 1) : ItemIndex(lists[k].items, id) = 0
         IN  <<i, ItemIndex(lists[i].items, id)>>
    ELSE <<0, 0>>

\* the cases of `switch (action.type)` that name a list, i being its place
ListActionEffect(lists, i, action) ==
    IF i = 0 THEN lists
    ELSE CASE action.type = "ListDelete" -> RemoveAt(lists, i)
           [] action.type = "ListSetName" -> [lists EXCEPT ![i].name = action.newName]
           [] action.type = "ListSetBudget" -> [lists EXCEPT ![i].budget = action.budget @@ @]
           [] action.type = "ListInjectMoney" ->
                [lists EXCEPT ![i].kitty.value = @ + action.amount]
           [] action.type = "ItemNew" ->
                [lists EXCEPT ![i].items =
                    Append(@, [id |-> action.id, name |-> Undefined, price |-> 0,
                               saved |-> [value |-> 0, rate |-> 0],
                               note |-> Undefined, expectedDate |-> Null])]

\* (mutant: the item arrives in the target list without what it had saved)
ItemMoveEffectLosesSaved(lists, source, target, action) ==
    IF source[1] = 0 \/ target = 0 THEN lists
    ELSE [[lists EXCEPT ![source[1]].items = RemoveAt(@, source[2])]
             EXCEPT ![target].items =
                InsertAt(@, Max(Min(action.targetIndex, Len(lists[target].items) - 1), 0),
                         [lists[source[1]].items[source[2]] EXCEPT !.saved.value = 0])]

\* case 'ItemMove': the clamp uses the target list's length before the item
\* is taken out of its source list
ItemMoveEffect(lists, source, target, action) ==
    IF source[1] = 0 \/ target = 0 THEN lists
    ELSE [[lists EXCEPT ![source[1]].items = RemoveAt(@, source[2])]
             EXCEPT ![target].items =
                InsertAt(@, Max(Min(action.targetIndex, Len(lists[target].items) - 1), 0),
                         lists[source[1]].items[source[2]])]

\* the cases that name an item, found at place j of list i
ItemActionEffect(lists, i, j, item, action) ==
    CASE action.type = "ItemDelete" ->
           [lists EXCEPT ![i].items = RemoveAt(@, j),
                         ![i].kitty.value = @ + item.saved.value]
      [] action.type = "ItemSetName" -> [lists EXCEPT ![i].items[j].name = action.name]
      [] action.type = "ItemSetPrice" ->
           IF action.price < item.saved.value
           THEN [lists EXCEPT ![i].kitty.value = @ + item.saved.value - action.price,
                              ![i].items[j].price = action.price,
                              ![i].items[j].saved.value = action.price]
           ELSE [lists EXCEPT ![i].items[j].price = action.price]
      [] action.type = "ItemSetNote" -> [lists EXCEPT ![i].items[j].note = action.note]
      [] action.type = "ItemPurchase" ->
           [lists EXCEPT
               ![i].kitty.value = @ + item.saved.value - action.actualPrice,
               ![i].purchaseHistory =
                   Append(@, [id |-> item.id, name |-> item.name,
                              priceEstimate |-> item.price,
                              price |-> action.actualPrice,
                              purchaseDate |-> action.time]),
               ![i].items = RemoveAt(@, j)]
      [] action.type = "ItemRedistributeMoney" ->
           [lists EXCEPT ![i].kitty.value = @ + item.saved.value,
                         ![i].items[j].saved.value = 0]

\* (mutant: case 'ItemSetName' is missing, a rename changes nothing)
FoundItemEffectNoRename(lists, found, action) ==
    IF found[1] = 0 \/ action.type = "ItemSetName" THEN lists
    ELSE ItemActionEffect(lists, found[1], found[2], lists[found[1]].items[found[2]], action)

\* (mutant: what the item had saved is not handed to the kitty)
FoundItemEffectDropsSaved(lists, found, action) ==
    IF found[1] = 0 THEN lists
    ELSE ItemActionEffect(lists, found[1], found[2],
                          [lists[found[1]].items[found[2]] EXCEPT !.saved.value = 0], action)

FoundItemEffect(lists, found, action) ==
    IF found[1] = 0 THEN lists
    ELSE ItemActionEffect(lists, found[1], found[2], lists[found[1]].items[found[2]], action)

\* the `switch (action.type)` of foldAction for the actions that edit lists
ListEffect(lists, action) ==
    CASE action.type = "ListNew" ->
           Append(lists, [id |-> action.id, name |-> action.name, items |-> << >>,
                          budget |-> [dollars |-> 0, unit |-> "/month"],
                          kitty |-> [value |-> 0, rate |-> 0],
                          purchaseHistory |-> << >>])
      [] action.type \in {"ListDelete", "ListSetName", "ListSetBudget", "ListInjectMoney",
                          "ItemNew"} ->
           ListActionEffect(lists, findList(lists, action.listId), action)
      [] action.type = "ItemMove" ->
           ItemMoveEffect(lists, findItem(lists, action.itemId),
                          findList(lists, action.targetListId), action)
      [] action.type \in {"ItemDelete", "ItemSetName", "ItemSetPrice", "ItemSetNote",
                          "ItemPurchase", "ItemRedistributeMoney"} ->
           FoundItemEffect(lists, findItem(lists, action.itemId), action)

emptyState ==
    [id |-> NoId, time |-> serializeDate(0), nextNonlinearity |-> Never,
     lists |-> << >>, hash |-> emptyHash]

RECURSIVE reduceActions(_)

\* case 'Undo' / case 'Redo': rebuild the state from scratch, this action included
\* (mutant: the case is missing, the action falls through as a no-op)
UndoRedoEffectMissing(projected, action, prevActions) ==
    mutatingProjection(projected, deserializeDate(action.time))

UndoRedoEffect(projected, action, prevActions) ==
    reduceActions(Append(prevActions, action))

\* snapshot.hash = action.hash, whether or not the effect is skipped
\* (mutant: a skipped action leaves the hash alone)
HashStepNotWhenSkipped(snapshot, action, skipEffect) ==
    IF skipEffect THEN snapshot ELSE [snapshot EXCEPT !.hash = action.hash]

HashStep(snapshot, action, skipEffect) == [snapshot EXCEPT !.hash = action.hash]

\* the `switch (action.type)` on the snapshot projected to the action's time;
\* every case but Undo and Redo runs into the trailing projection
ActionEffect(projected, action, prevActions) ==
    IF action.type \in {"Undo", "Redo"}
    THEN UndoRedoEffect(projected, action, prevActions)
    ELSE mutatingProjection(
            CASE action.type = "New" ->
                    [projected EXCEPT !.id = action.id, !.time = action.time,
                                      !.lists = << >>]
              [] action.type = "MigrateState" ->
                    [(action.state @@ projected) EXCEPT !.time = action.time]
              [] OTHER ->
                    [projected EXCEPT !.lists = ListEffect(@, action)],
            deserializeDate(action.time))

\* (mutant: the effect applies to the snapshot as it was left, and only the
\* trailing projection brings it to the action's time)
foldActionNoFirstProjection(snapshot, action, prevActions, skipEffect) ==
    IF skipEffect THEN HashStep(snapshot, action, skipEffect)
    ELSE ActionEffect(HashStep(snapshot, action, skipEffect), action, prevActions)

\* (mutant: a skipped action is still projected to its time)
foldActionProjectsSkipped(snapshot, action, prevActions, skipEffect) ==
    IF skipEffect
    THEN mutatingProjection(HashStep(snapshot, action, skipEffect), deserializeDate(action.time))
    ELSE ActionEffect(mutatingProjection(HashStep(snapshot, action, skipEffect),
                                         deserializeDate(action.time)),
                      action, prevActions)

foldAction(snapshot, action, prevActions, skipEffect) ==
    IF skipEffect THEN HashStep(snapshot, action, skipEffect)
    ELSE ActionEffect(mutatingProjection(HashStep(snapshot, action, skipEffect),
                                         deserializeDate(action.time)),
                      action, prevActions)

\* first pass of reduceActions: the ids whose effect is skipped
\* (mutant: an Undo skips only itself, not the action it undoes)
SkipStepUndoOnlyItself(skip, action) ==
    IF action.type = "Undo" THEN skip \cup {action.id}
    ELSE IF action.type = "Redo" THEN (skip \cup {action.id}) \ {action.actionIdToRedo}
    ELSE skip

\* (mutant: a Redo does not take the redone action out of the skip set)
SkipStepRedoKeeps(skip, action) ==
    IF action.type = "Undo" THEN skip \cup {action.id, action.actionIdToUndo}
    ELSE IF action.type = "Redo" THEN skip \cup {action.id}
    ELSE skip

\* (mutant: a Redo empties the skip set, the ids of earlier Undo actions
\* included, and adds its own id)
SkipStepRedoClears(skip, action) ==
    IF action.type = "Undo" THEN skip \cup {action.id, action.actionIdToUndo}
    ELSE IF action.type = "Redo" THEN {action.id}
    ELSE skip

SkipStep(skip, action) ==
    IF action.type = "Undo" THEN skip \cup {action.id, action.actionIdToUndo}
    ELSE IF action.type = "Redo" THEN (skip \cup {action.id}) \ {action.actionIdToRedo}
    ELSE skip

RECURSIVE SkipSet(_, _)
SkipSet(skip, history) ==
    IF history = << >> THEN skip
    ELSE SkipSet(SkipStep(skip, Head(history)), Tail(history))

\* second pass: actions.reduce(...) over foldAction
RECURSIVE FoldFrom(_, _, _, _)
FoldFrom(state, done, rest, skip) ==
    IF rest = << >> THEN state
    ELSE FoldFrom(foldAction(state, Head(rest), done, Head(rest).id \in skip),
                  Append(done, Head(rest)), Tail(rest), skip)

reduceActions(history) == FoldFrom(emptyState, << >>, history, SkipSet({}, history))

----------------------------------------------------------------------------
(* History Merger *)

\* history.some(a => a.hash === hash)
\* (mutant: no history is ever recognised as ahead of the other)
CanFastForwardNever(history, hash) == FALSE

CanFastForward(history, hash) == \E i \in 1..Len(history) : history[i].hash = hash

\* left.value.id === right.value.id, neither side being done
\* (mutant: the two sides' heads are never taken for the same action)
SameActionNever(left, right) == FALSE

SameAction(left, right) ==
    left # << >> /\ right # << >> /\ Head(left).id = Head(right).id

\* (mutant: on a tie in time the second history's action is taken)
RECURSIVE MergeLoopRightOnTies(_, _, _, _)
MergeLoopRightOnTies(left, right, hash, result) ==
    IF left = << >> /\ right = << >> THEN result
    ELSE LET same == SameAction(left, right)
             leftWins == left # << >> /\ (right = << >> \/ Head(left).time < Head(right).time)
             pickAction == IF same \/ leftWins THEN Head(left) ELSE Head(right)
             newHash == calculateActionHash(hash, pickAction)
             picked == IF newHash # pickAction.hash THEN WithHash(pickAction, newHash)
                       ELSE pickAction
         IN  MergeLoopRightOnTies(IF same \/ leftWins THEN Tail(left) ELSE left,
                                  IF same \/ ~leftWins THEN Tail(right) ELSE right,
                                  picked.hash, Append(result, picked))

\* (mutant: the picked action keeps the hash it came with)
RECURSIVE MergeLoopKeepsHashes(_, _, _, _)
MergeLoopKeepsHashes(left, right, hash, result) ==
    IF left = << >> /\ right = << >> THEN result
    ELSE LET same == SameAction(left, right)
             leftWins == left # << >> /\ (right = << >> \/ Head(left).time <= Head(right).time)
             pickAction == IF same \/ leftWins THEN Head(left) ELSE Head(right)
         IN  MergeLoopKeepsHashes(IF same \/ leftWins THEN Tail(left) ELSE left,
                                  IF same \/ ~leftWins THEN Tail(right) ELSE right,
                                  pickAction.hash, Append(result, pickAction))

\* the while loop of mergeHistories: a two-pointer merge that re-chains the
\* hashes
RECURSIVE MergeLoop(_, _, _, _)
MergeLoop(left, right, hash, result) ==
    IF left = << >> /\ right = << >> THEN result
    ELSE LET same == SameAction(left, right)
             leftWins == left # << >> /\ (right = << >> \/ Head(left).time <= Head(right).time)
             pickAction == IF same \/ leftWins THEN Head(left) ELSE Head(right)
             newHash == calculateActionHash(hash, pickAction)
             picked == IF newHash # pickAction.hash THEN WithHash(pickAction, newHash)
                       ELSE pickAction
         IN  MergeLoop(IF same \/ leftWins THEN Tail(left) ELSE left,
                       IF same \/ ~leftWins THEN Tail(right) ELSE right,
                       picked.hash, Append(result, picked))

\* mergeHistories(history1, history2); `from` says which array is returned:
\* history1 itself, history2 itself, or a new one
mergeHistories(history1, history2) ==
    IF historyHash(history1) = historyHash(history2)
    THEN [history |-> history1, from |-> "history1"]
    ELSE IF CanFastForward(history1, historyHash(history2))
    THEN [history |-> history1, from |-> "history1"]
    ELSE IF CanFastForward(history2, historyHash(history1))
    THEN [history |-> history2, from |-> "history2"]
    ELSE [history |-> MergeLoop(history1, history2, emptyHash, << >>), from |-> "merged"]

\* mergeStates(state1, state2); a state is [snapshot, actions]; `from` says
\* whether state1 or state2 itself is returned or a state reduced anew
\* (mutant: the merge result is the remote state)
StateOfMergedTakesRemote(state1, state2, merged) == [state |-> state2, from |-> "state2"]

StateOfMerged(state1, state2, merged) ==
    IF merged.from = "history1" THEN [state |-> state1, from |-> "state1"]
    ELSE IF merged.from = "history2" THEN [state |-> state2, from |-> "state2"]
    ELSE [state |-> [snapshot |-> reduceActions(merged.history),
                     actions |-> merged.history],
          from |-> "reduced"]

mergeStates(state1, state2) ==
    StateOfMerged(state1, state2, mergeHistories(state1.actions, state2.actions))

----------------------------------------------------------------------------
(* Undo/Redo Controller and the handlers around it.                          *)

\* doAction at time t: the new action is the last of the result's actions
doAction(globals, newAction, t) ==
    LET actionWithoutHash == newAction @@ [id |-> globals.nextId + 1, time |-> serializeDate(t)]
        action == WithHash(actionWithoutHash,
                           calculateActionHash(globals.snapshot.hash, actionWithoutHash))
    IN  [globals EXCEPT !.snapshot = foldAction(globals.snapshot, action, globals.actions, FALSE),
                  !.actions = Append(globals.actions, action),
                  !.nextId = globals.nextId + 1]

\* the end of addUserAction: the undo history is cut at undoIndex and the id
\* of the action doAction returned is pushed; done is what doAction left
\* (mutant: the new id goes to the front of the undo history)
PushUndoHistoryAtFront(globals, done) ==
    [done EXCEPT !.undoHistory = <<done.actions[Len(done.actions)].id>>
                                    \o SubSeq(globals.undoHistory, 1, globals.undoIndex),
                 !.undoIndex = globals.undoIndex + 1]

\* (mutant: the id overwrites the entry at undoIndex and the entries after it
\* stay)
PushUndoHistoryKeepsTail(globals, done) ==
    [done EXCEPT !.undoHistory = SubSeq(globals.undoHistory, 1, globals.undoIndex)
                                    \o <<done.actions[Len(done.actions)].id>>
                                    \o SubSeq(globals.undoHistory, globals.undoIndex + 2,
                                              Len(globals.undoHistory)),
                 !.undoIndex = globals.undoIndex + 1]

PushUndoHistory(globals, done) ==
    [done EXCEPT !.undoHistory = SubSeq(globals.undoHistory, 1, globals.undoIndex)
                                    \o <<done.actions[Len(done.actions)].id>>,
                 !.undoIndex = globals.undoIndex + 1]

addUserAction(globals, newAction, t) ==
    PushUndoHistory(globals, doAction(globals, newAction, t))

\* the head of updateState: there is always at least one list
EnsureList(globals, t) ==
    IF Len(globals.snapshot.lists) < 1
    THEN doAction(globals, [type |-> "ListNew", name |-> "Wish list"], t)
    ELSE globals

\* the tail of updateState: the snapshot is projected to the current time
ProjectToNow(globals, t) == [globals EXCEPT !.snapshot = projection(@, t)]

updateState(globals, t) == ProjectToNow(EnsureList(globals, t), t)

----------------------------------------------------------------------------
(* Bounds and input sets *)

MaxItems == 2
MaxDays == 2
Horizon == 2

\* the session starts at StartTime; what it loads was saved a day earlier
StartTime == 2 * MsPerDay
SavedTime == MsPerDay
Prices == {0, 1, 2, 3}
Kitties == {-3, -1, 0, 2, 5}
Budgets == {[dollars |-> 0, unit |-> "/month"], [dollars |-> 1461, unit |-> "/month"],
            [dollars |-> 1, unit |-> "/day"], [dollars |-> 2, unit |-> "/day"]}

\* the items a list can hold before a projection: any price, any amount saved
\* up to the price (ItemMove reorders them freely)
RawItem(id) ==
    { [id |-> id, name |-> "Item", price |-> p, saved |-> [value |-> v, rate |-> 0],
       note |-> Undefined, expectedDate |-> Null] : p \in Prices, v \in 0..3 }

RawItems(firstId) ==
    UNION { { s \in [1..n -> UNION { RawItem(firstId + k) : k \in 0..(n - 1) }] :
                \A k \in 1..n : s[k].id = firstId + k - 1 /\ s[k].saved.value <= s[k].price }
            : n \in 0..MaxItems }

RawList(id) ==
    { [id |-> id, name |-> "Wish list", budget |-> b, kitty |-> [value |-> k, rate |-> 0],
       items |-> its, purchaseHistory |-> << >>] :
         b \in Budgets, k \in Kitties, its \in RawItems(id + 1) }

\* a second list, to have more than one candidate for nextNonlinearity
OtherLists ==
    { << >>,
      << [id |-> 90, name |-> "Other", budget |-> [dollars |-> 1, unit |-> "/day"],
          kitty |-> [value |-> 0, rate |-> 0],
          items |-> << [id |-> 91, name |-> "Item", price |-> 2, saved |-> [value |-> 0, rate |-> 0],
                        note |-> Undefined, expectedDate |-> Null] >>,
          purchaseHistory |-> << >>] >>,
      << [id |-> 90, name |-> "Other", budget |-> [dollars |-> 2, unit |-> "/day"],
          kitty |-> [value |-> -2, rate |-> 0], items |-> << >>, purchaseHistory |-> << >>] >> }

\* the snapshots mutatingProjection is handed: g.snapshot, or foldAction's draft
\* right after an action's effect
RawSnapshots ==
    { [id |-> 1, time |-> serializeDate(StartTime), nextNonlinearity |-> Null,
       lists |-> <<l>> \o o, hash |-> << >>] : l \in RawList(10), o \in OtherLists }

----------------------------------------------------------------------------
(* Projection alone: a snapshot, the clock, and projection() to the clock *)

\* g.mode = 'local': no other device, nothing merged
Offline == [devices |-> << >>, merged |-> [from |-> "none"]]

ProjInit ==
    /\ now = StartTime
    /\ \E s \in RawSnapshots :
          /\ g = [snapshot |-> s, actions |-> << >>, undoHistory |-> << >>,
                  undoIndex |-> 0, nextId |-> 0]
          /\ before = s
          /\ origin = g
    /\ lastOp = "init"
    /\ net = Offline

\* time passes
Tick ==
    /\ now < StartTime + MaxDays * MsPerDay
    /\ now' = now + MsPerDay
    /\ lastOp' = "tick"
    /\ UNCHANGED <<g, before, origin, net>>

\* g.snapshot = projection(g.snapshot, Date.now())
Project ==
    /\ before' = g.snapshot
    /\ g' = [g EXCEPT !.snapshot = projection(@, now)]
    /\ lastOp' = "projection"
    /\ UNCHANGED <<now, origin, net>>

ProjNext == Tick \/ Project

SpecProj == ProjInit /\ [][ProjNext]_vars

----------------------------------------------------------------------------
(* The engine in one browser session: onLoad, the user's handlers, undo and *)
(* redo, the clock                                                          *)

\* a session is followed for MaxWork units of work: an action the user
\* enters counts three (SessionOps + 2 * SessionUserActions), an undo or a
\* redo counts one
MaxWork == 8
MaxLists == 2
MaxSessionDays == 1

\* monthly budgets the user types, chosen so that the daily rate is whole:
\* 1461 $/month is 48 $/day
UserBudgets == {[dollars |-> 1461, unit |-> "/month"]}
UserPrices == {48}
UserAmounts == {-60, 100}
UserActualPrices == {40}

EmptyGlobals ==
    [snapshot |-> emptyState, actions |-> << >>, undoHistory |-> << >>,
     undoIndex |-> 0, nextId |-> 0]

\* newState(): a stream holding one New action
newState(t) == doAction(EmptyGlobals, [type |-> "New"], t)

RECURSIVE DoAll(_, _, _)
DoAll(globals, newActions, t) ==
    IF newActions = << >> THEN globals
    ELSE DoAll(doAction(globals, Head(newActions), t), Tail(newActions), t)

\* what localStorage / state.json can hold when the page loads: nothing, or
\* the stream an earlier session saved (one list with a budget and one or two
\* priced items)
OneItemStream(b, p) ==
    DoAll(newState(SavedTime),
          << [type |-> "ListNew", name |-> "Wish list"],
             [type |-> "ListSetBudget", listId |-> 2, budget |-> b],
             [type |-> "ItemNew", listId |-> 2],
             [type |-> "ItemSetPrice", itemId |-> 4, price |-> p] >>, SavedTime)

TwoItemStream(b, p) ==
    DoAll(OneItemStream(b, p),
          << [type |-> "ItemNew", listId |-> 2],
             [type |-> "ItemSetPrice", itemId |-> 6, price |-> 120] >>, SavedTime)

PersistedStates ==
    {newState(StartTime)}
      \cup { OneItemStream(b, 120) : b \in UserBudgets }
      \cup { TwoItemStream(b, 72) : b \in UserBudgets }

\* onLoad: undo history reset, state loaded, snapshot rebuilt from the
\* actions, updateState()
Loaded(loaded) ==
    [loaded EXCEPT !.snapshot = reduceActions(loaded.actions),
                   !.undoHistory = << >>, !.undoIndex = 0]

\* updateState() at the end of onLoad; `before` keeps the snapshot it handed
\* to projection()
InitUpdated(ensured) ==
    /\ g = ProjectToNow(ensured, now)
    /\ before = ensured.snapshot
    /\ origin = g

Init ==
    /\ now = StartTime
    /\ \E loaded \in PersistedStates : InitUpdated(EnsureList(Loaded(loaded), now))
    /\ lastOp = "init"
    /\ net = Offline

\* updateState() in a handler; `before` keeps the snapshot it handed to
\* projection()
Updated(ensured) ==
    /\ g' = ProjectToNow(ensured, now)
    /\ before' = ensured.snapshot

\* a handler that adds one user action: addUserAction, then updateState
\* (finishedUserInteraction); save and render change nothing here
SessionOps == Len(g.actions) - Len(origin.actions)
SessionUserActions ==
    Cardinality({ i \in (Len(origin.actions) + 1)..Len(g.actions) :
                    g.actions[i].type \notin {"Undo", "Redo"} })

UserAction(newAction) ==
    /\ SessionOps + 2 * SessionUserActions + 3 <= MaxWork
    /\ Updated(EnsureList(addUserAction(g, newAction, now), now))
    /\ lastOp' = newAction.type
    /\ UNCHANGED <<now, origin, net>>

ListIds == { g.snapshot.lists[i].id : i \in 1..Len(g.snapshot.lists) }
ItemIds == UNION { { g.snapshot.lists[i].items[j].id : j \in 1..Len(g.snapshot.lists[i].items) }
                   : i \in 1..Len(g.snapshot.lists) }
ListOf(id) == g.snapshot.lists[findList(g.snapshot.lists, id)]

newListClick ==
    /\ Len(g.snapshot.lists) < MaxLists
    /\ UserAction([type |-> "ListNew",
                   name |-> IF \E i \in 1..Len(g.snapshot.lists) :
                                   g.snapshot.lists[i].name = "Wish list"
                            THEN "Wish list 2" ELSE "Wish list"])

deleteListClick ==
    \E l \in ListIds : UserAction([type |-> "ListDelete", listId |-> l])

listSetName ==
    \E l \in ListIds : UserAction([type |-> "ListSetName", listId |-> l, newName |-> "Bike"])

listSetBudget ==
    \E l \in ListIds, b \in UserBudgets :
        UserAction([type |-> "ListSetBudget", listId |-> l, budget |-> b])

injectMoneyClick ==
    \E l \in ListIds, amount \in UserAmounts :
        UserAction([type |-> "ListInjectMoney", listId |-> l, amount |-> amount])

addItemClick ==
    \E l \in ListIds :
        /\ Len(ListOf(l).items) < MaxItems
        /\ UserAction([type |-> "ItemNew", listId |-> l])

\* targetIndex is list.items.indexOf(targetItem): -1 when dropped beside the items
itemDrop ==
    \E i \in ItemIds, l \in ListIds :
      \E targetIndex \in -1..(Len(ListOf(l).items) - 1) :
        /\ Len(ListOf(l).items) < MaxItems \/ findItem(g.snapshot.lists, i)[1] = findList(g.snapshot.lists, l)
        /\ UserAction([type |-> "ItemMove", itemId |-> i, targetListId |-> l,
                       targetIndex |-> targetIndex])

deleteItemClick ==
    \E i \in ItemIds : UserAction([type |-> "ItemDelete", itemId |-> i])

itemSetName ==
    \E i \in ItemIds : UserAction([type |-> "ItemSetName", itemId |-> i, name |-> "Tent"])

itemSetPrice ==
    \E i \in ItemIds, price \in UserPrices :
        UserAction([type |-> "ItemSetPrice", itemId |-> i, price |-> price])

editItemNoteClick ==
    \E i \in ItemIds : UserAction([type |-> "ItemSetNote", itemId |-> i, note |-> "blue"])

purchaseItemClick ==
    \E i \in ItemIds, actualPrice \in UserActualPrices :
        UserAction([type |-> "ItemPurchase", itemId |-> i, actualPrice |-> actualPrice])

redistributeItemClick ==
    \E i \in ItemIds : UserAction([type |-> "ItemRedistributeMoney", itemId |-> i])

undo ==
    /\ SessionOps + 2 * SessionUserActions + 1 <= MaxWork
    /\ g.undoIndex > 0
    /\ Updated(EnsureList(doAction([g EXCEPT !.undoIndex = @ - 1],
                                    [type |-> "Undo",
                                     actionIdToUndo |-> g.undoHistory[g.undoIndex]],
                                    now), now))
    /\ lastOp' = "undo"
    /\ UNCHANGED <<now, origin, net>>

redo ==
    /\ SessionOps + 2 * SessionUserActions + 1 <= MaxWork
    /\ g.undoIndex < Len(g.undoHistory)
    /\ Updated(EnsureList(doAction([g EXCEPT !.undoIndex = @ + 1],
                                    [type |-> "Redo",
                                     actionIdToRedo |-> g.undoHistory[g.undoIndex + 1]],
                                    now), now))
    /\ lastOp' = "redo"
    /\ UNCHANGED <<now, origin, net>>

\* the session's clock
clockAdvance ==
    /\ now < StartTime + MaxSessionDays * MsPerDay
    /\ now' = now + MsPerDay
    /\ lastOp' = "tick"
    /\ UNCHANGED <<g, before, origin, net>>

\* the nextNonLinearityTimer callback: updateState()
nonlinearityTimer ==
    /\ Updated(EnsureList(g, now))
    /\ lastOp' = "projection"
    /\ UNCHANGED <<now, origin, net>>

Next ==
    \/ clockAdvance
    \/ nonlinearityTimer
    \/ newListClick
    \/ deleteListClick
    \/ listSetName
    \/ listSetBudget
    \/ injectMoneyClick
    \/ addItemClick
    \/ itemDrop
    \/ deleteItemClick
    \/ itemSetName
    \/ itemSetPrice
    \/ editItemNoteClick
    \/ purchaseItemClick
    \/ redistributeItemClick
    \/ undo
    \/ redo

Spec == Init /\ [][Next]_vars

----------------------------------------------------------------------------
(* A budget unit that getAllocatedRate does not know: the fold throws out of *)
(* doAction and the handler stops where the exception leaves it             *)

UnknownUnit(budget) == budget.unit \notin {"/month", "/day"}

\* mutatingProjection calls getAllocatedRate for every list
ProjectionThrows(lists) == \E i \in 1..Len(lists) : UnknownUnit(lists[i].budget)

\* foldAction of a list or item action that is not skipped: the projection
\* before the switch, or the one after it, throws
FoldThrows(snapshot, action) ==
    ProjectionThrows(snapshot.lists) \/ ProjectionThrows(ListEffect(snapshot.lists, action))

\* (mutant: doAction pushes the action before it folds it)
DoActionOutcomePushFirst(globals, newAction, t) ==
    IF FoldThrows(globals.snapshot, newAction)
    THEN [threw |-> TRUE,
          g |-> [globals EXCEPT
                   !.actions = doAction([globals EXCEPT !.snapshot.lists = << >>],
                                        newAction, t).actions,
                   !.nextId = @ + 1]]
    ELSE [threw |-> FALSE, g |-> doAction(globals, newAction, t)]

\* doAction with its exception: uuidv4() has run, the throw comes out of
\* foldAction before g.snapshot is assigned and before g.actions.push
DoActionOutcome(globals, newAction, t) ==
    IF FoldThrows(globals.snapshot, newAction)
    THEN [threw |-> TRUE, g |-> [globals EXCEPT !.nextId = @ + 1]]
    ELSE [threw |-> FALSE, g |-> doAction(globals, newAction, t)]

\* addUserAction: the undo history is touched only after doAction returned
AddUserActionOutcome(globals, outcome) ==
    IF outcome.threw THEN outcome
    ELSE [threw |-> FALSE, g |-> PushUndoHistory(globals, outcome.g)]

\* the rest of the handler (finishedUserInteraction) runs only without a throw
HandlerOutcome(outcome, type) ==
    IF outcome.threw
    THEN g' = outcome.g /\ before' = before /\ lastOp' = "threw"
    ELSE Updated(EnsureList(outcome.g, now)) /\ lastOp' = type

UnitsEntered == {"/day", "/week"}

\* a session is followed through at most MaxThrows handlers that threw
MaxThrows == 2

\* a ListSetBudget whose unit is not one the budget editor offers
setBudgetUnit ==
    \E l \in ListIds, unit \in UnitsEntered :
        /\ SessionOps + 2 * SessionUserActions + 3 <= MaxWork
        /\ g.nextId - Len(g.actions) < MaxThrows
        /\ HandlerOutcome(AddUserActionOutcome(g,
                DoActionOutcome(g, [type |-> "ListSetBudget", listId |-> l,
                                    budget |-> [dollars |-> 48, unit |-> unit]], now)),
                "ListSetBudget")
        /\ UNCHANGED <<now, origin, net>>

UnitNext ==
    \/ clockAdvance
    \/ setBudgetUnit
    \/ addItemClick
    \/ itemSetPrice
    \/ undo
    \/ redo

SpecUnit == Init /\ [][UnitNext]_vars

----------------------------------------------------------------------------
(* Loading a state that was saved before the action log existed *)

\* hash: '' of the MigrateState action upgradeStateFormat creates
BlankHash == <<"">>

\* the lists of a state without actions, field by field; the saved lists
\* here hold no items
UpgradedList(list) ==
    [id |-> list.id, name |-> list.name,
     budget |-> [dollars |-> list.budget.dollars, unit |-> list.budget.unit],
     kitty |-> [value |-> list.kitty.value, rate |-> list.kitty.rate],
     purchaseHistory |-> << >>,
     items |-> << >>]

\* the snapshot that becomes the MigrateState action's state, as deepClone
\* sees it: a state without a hash gives a payload without one
MigratePayload(state) ==
    [f \in DOMAIN state \cap {"id", "hash", "time", "nextNonlinearity"} |-> state[f]]
      @@ [lists |-> [i \in 1..Len(state.lists) |-> UpgradedList(state.lists[i])]]

MigrateActions(state) ==
    << [type |-> "MigrateState", id |-> state.id, time |-> state.time,
        hash |-> BlankHash, state |-> MigratePayload(state)] >>

\* upgradeStateFormat(state) for a state without actions
upgradeStateFormat(state) ==
    [snapshot |-> reduceActions(MigrateActions(state)), actions |-> MigrateActions(state)]

\* what an earlier version saved: one list with a budget and money in the
\* kitty, with no hash field or with one
LegacyState ==
    [id |-> 1, time |-> serializeDate(SavedTime), nextNonlinearity |-> Null,
     lists |-> << [id |-> 2, name |-> "Wish list",
                   budget |-> [dollars |-> 1461, unit |-> "/month"],
                   kitty |-> [value |-> 100, rate |-> 0]] >>]

LegacyStates == { LegacyState, LegacyState @@ [hash |-> <<"saved">>] }

\* g.state = upgradeStateFormat(...): the setter splits snapshot and actions
LoadedBlob(blob) ==
    [snapshot |-> blob.snapshot, actions |-> blob.actions,
     undoHistory |-> << >>, undoIndex |-> 0, nextId |-> 2]

\* onLoad on a saved state without actions
UpgradeInit ==
    /\ now = StartTime
    /\ \E state \in LegacyStates :
          InitUpdated(EnsureList(Loaded(LoadedBlob(upgradeStateFormat(state))), now))
    /\ lastOp = "init"
    /\ net = Offline

SpecUpgrade == UpgradeInit /\ [][Next]_vars

----------------------------------------------------------------------------
(* loadState in its three modes, on what the file or localStorage holds, and *)
(* the rest of onLoad after it                                               *)

Modes == {"electron-local", "web-local", "online"}

\* what state.json, 'squirrel-away-state' or 'squirrel-away-online-state'
\* holds: nothing, text that is not JSON, the JSON text null, a state saved
\* without actions, or a saved stream
StoredContents ==
    { [kind |-> "absent"], [kind |-> "corrupt"], [kind |-> "null"] }
      \cup { [kind |-> "legacy", state |-> state] : state \in LegacyStates }
      \cup { [kind |-> "stream", state |-> OneItemStream(b, 120)] : b \in UserBudgets }

\* the try block of loadState throws: readFileSync on a missing file or
\* mergeStates(state, null) in synchronize; JSON.parse; the g.state setter
\* or mergeStates on null
LoadThrows(mode, stored) ==
    \/ stored.kind = "absent" /\ mode \in {"electron-local", "online"}
    \/ stored.kind = "corrupt"
    \/ stored.kind = "null"

\* (mutant: no catch, g stays as the page created it)
LoadFallbackMissing(t) == EmptyGlobals

\* catch (e) { g.state = newState() }
LoadFallback(t) == newState(t)

\* the value the try block assigns to g.state when nothing throws
LoadedValue(stored, t) ==
    CASE stored.kind = "absent" -> newState(t)
      [] stored.kind = "legacy" -> LoadedBlob(upgradeStateFormat(stored.state))
      [] stored.kind = "stream" -> stored.state

loadState(mode, stored, t) ==
    IF LoadThrows(mode, stored) THEN LoadFallback(t) ELSE LoadedValue(stored, t)

LoadInit ==
    /\ now = StartTime
    /\ before = emptyState
    /\ origin = EmptyGlobals
    /\ lastOp = "loadState"
    /\ \E mode \in Modes, stored \in StoredContents :
          /\ g = loadState(mode, stored, now)
          /\ net = [devices |-> << >>, merged |-> [from |-> "none"],
                    load |-> [mode |-> mode, stored |-> stored.kind,
                              threw |-> LoadThrows(mode, stored)]]

\* onLoad after `await g.loadState(false)`: the snapshot is rebuilt from the
\* actions, then updateState()
onLoadRest ==
    /\ lastOp = "loadState"
    /\ Updated(EnsureList(Loaded(g), now))
    /\ origin' = g'
    /\ lastOp' = "init"
    /\ UNCHANGED <<now, net>>

Ready == lastOp # "loadState"

LoadNext ==
    \/ onLoadRest
    \/ Ready /\ clockAdvance
    \/ Ready /\ addItemClick
    \/ Ready /\ itemSetPrice
    \/ Ready /\ undo
    \/ Ready /\ redo

SpecLoad == LoadInit /\ [][LoadNext]_vars

----------------------------------------------------------------------------
(* Several devices that share one stream: each adds actions on its own and *)
(* merges another device's state into its own, as syncWithServer does with *)
(* the state the other device pushed                                        *)

NDevices == 3
MaxDeviceActions == 1
MaxSyncs == 2

\* uuidv4() never repeats across devices: device d numbers its ids from
\* d * IdRange
IdRange == 100

Devices == 1..NDevices

\* the stream all devices cloned, and a stream a device started on its own
\* half a day later
OtherSavedTime == SavedTime + MsPerDay \div 2

SharedStream == OneItemStream([dollars |-> 1461, unit |-> "/month"], 120)

DeviceOf(start) ==
    [snapshot |-> start.snapshot, actions |-> start.actions, nextId |-> start.nextId]

DeviceInit(d, independent) ==
    DeviceOf(IF independent
             THEN DoAll([EmptyGlobals EXCEPT !.nextId = d * IdRange],
                        << [type |-> "New"], [type |-> "ListNew", name |-> "Wish list"] >>,
                        OtherSavedTime)
             ELSE [SharedStream EXCEPT !.nextId = d * IdRange])

MergeInit ==
    /\ now = StartTime
    /\ g = EmptyGlobals
    /\ before = emptyState
    /\ origin = EmptyGlobals
    /\ lastOp = "init"
    /\ \E independent \in BOOLEAN :
          net = [devices |-> [d \in Devices |->
                                DeviceInit(d, independent /\ d = NDevices)],
                 merged |-> [from |-> "none"],
                 syncs |-> 0]

OwnActions(d) ==
    Cardinality({ i \in 1..Len(net.devices[d].actions) :
                    net.devices[d].actions[i].id > d * IdRange
                    /\ net.devices[d].actions[i].id < (d + 1) * IdRange
                    /\ net.devices[d].actions[i].type \notin {"New", "ListNew"} })

DeviceAction(d, newAction) ==
    /\ OwnActions(d) < MaxDeviceActions
    /\ net' = [net EXCEPT !.devices[d] = doAction(@, newAction, now)]
    /\ lastOp' = newAction.type
    /\ UNCHANGED <<now, g, before, origin>>

deviceInjectMoney ==
    \E d \in Devices :
        /\ Len(net.devices[d].snapshot.lists) > 0
        /\ DeviceAction(d, [type |-> "ListInjectMoney",
                            listId |-> net.devices[d].snapshot.lists[1].id,
                            amount |-> 100])

deviceSetPrice ==
    \E d \in Devices :
        /\ Len(net.devices[d].snapshot.lists) > 0
        /\ Len(net.devices[d].snapshot.lists[1].items) > 0
        /\ DeviceAction(d, [type |-> "ItemSetPrice",
                            itemId |-> net.devices[d].snapshot.lists[1].items[1].id,
                            price |-> 48])

\* device d keeps the merged state
Synced(d, e, merged) ==
    [net EXCEPT !.devices[d].snapshot = merged.state.snapshot,
                !.devices[d].actions = merged.state.actions,
                !.merged = [from |-> merged.from, into |-> d, other |-> e],
                !.syncs = @ + 1]

\* device d merges what device e holds into its own state
deviceSync ==
    \E d, e \in Devices :
        /\ d # e
        /\ net.syncs < MaxSyncs
        /\ net' = Synced(d, e, mergeStates([snapshot |-> net.devices[d].snapshot,
                                             actions |-> net.devices[d].actions],
                                            [snapshot |-> net.devices[e].snapshot,
                                             actions |-> net.devices[e].actions]))
        /\ lastOp' = "sync"
        /\ UNCHANGED <<now, g, before, origin>>

MergeNext ==
    \/ clockAdvance
    \/ deviceInjectMoney
    \/ deviceSetPrice
    \/ deviceSync

SpecMerge == MergeInit /\ [][MergeNext]_vars

----------------------------------------------------------------------------
(* Two users' sessions on one shared stream: each session has its own undo  *)
(* history, adds user actions, undoes and redoes its own, and merges the    *)
(* other's state into its own.  An exploration fixes how much each user     *)
(* does and how often they merge: both users a little with two merges, or   *)
(* the first user a lot and the second one action with one merge.           *)

NUsers == 2
EvenWork == 4
EvenSyncs == 2
SoloWork == 8
GuestWork == 2
SoloSyncs == 1

Users == 1..NUsers

Explorations ==
    { [work |-> [u \in Users |-> EvenWork], syncs |-> EvenSyncs],
      [work |-> [u \in Users |-> IF u = 1 THEN SoloWork ELSE GuestWork],
       syncs |-> SoloSyncs] }

\* onLoad of a session on the shared stream: the snapshot is rebuilt and
\* projected, the undo history is empty
UserInit(u) ==
    ProjectToNow(EnsureList(Loaded([SharedStream EXCEPT !.nextId = u * IdRange]), StartTime),
                 StartTime)

ShareInit ==
    /\ now = StartTime
    /\ g = EmptyGlobals
    /\ before = emptyState
    /\ origin = EmptyGlobals
    /\ lastOp = "init"
    /\ \E limits \in Explorations :
          net = [devices |-> [u \in Users |-> UserInit(u)],
                 merged |-> [from |-> "none"],
                 syncs |-> 0,
                 limits |-> limits,
                 by |-> 0]

\* the places in a history of the actions that user u's session created
OwnIn(u, history) ==
    { i \in 1..Len(history) : history[i].id > u * IdRange /\ history[i].id < (u + 1) * IdRange }

\* what user u has done so far: a user action weighs two, an undo or redo one
UserWork(u) ==
    Cardinality(OwnIn(u, net.devices[u].actions))
      + Cardinality({ i \in OwnIn(u, net.devices[u].actions) :
                        net.devices[u].actions[i].type \notin {"Undo", "Redo"} })

\* a handler of user u's session that adds one user action: addUserAction,
\* then updateState (finishedUserInteraction)
UserDoes(u, newAction) ==
    /\ UserWork(u) + 2 <= net.limits.work[u]
    /\ net' = [net EXCEPT !.devices[u] =
                  ProjectToNow(EnsureList(addUserAction(@, newAction, now), now), now),
                          !.by = u]
    /\ lastOp' = newAction.type
    /\ UNCHANGED <<now, g, before, origin>>

userAddItem ==
    \E u \in Users :
        /\ Len(net.devices[u].snapshot.lists) > 0
        /\ Len(net.devices[u].snapshot.lists[1].items) < MaxItems
        /\ UserDoes(u, [type |-> "ItemNew", listId |-> net.devices[u].snapshot.lists[1].id])

\* the user renames the last item of the first list
userSetName ==
    \E u \in Users :
        /\ Len(net.devices[u].snapshot.lists) > 0
        /\ Len(net.devices[u].snapshot.lists[1].items) > 0
        /\ UserDoes(u, [type |-> "ItemSetName",
                        itemId |-> net.devices[u].snapshot.lists[1].items[
                                       Len(net.devices[u].snapshot.lists[1].items)].id,
                        name |-> "Tent"])

userUndo ==
    \E u \in Users :
        /\ UserWork(u) + 1 <= net.limits.work[u]
        /\ net.devices[u].undoIndex > 0
        /\ net' = [net EXCEPT !.devices[u] =
                      ProjectToNow(EnsureList(
                          doAction([@ EXCEPT !.undoIndex = @ - 1],
                                   [type |-> "Undo",
                                    actionIdToUndo |-> @.undoHistory[@.undoIndex]],
                                   now), now), now),
                              !.by = u]
        /\ lastOp' = "undo"
        /\ UNCHANGED <<now, g, before, origin>>

userRedo ==
    \E u \in Users :
        /\ UserWork(u) + 1 <= net.limits.work[u]
        /\ net.devices[u].undoIndex < Len(net.devices[u].undoHistory)
        /\ net' = [net EXCEPT !.devices[u] =
                      ProjectToNow(EnsureList(
                          doAction([@ EXCEPT !.undoIndex = @ + 1],
                                   [type |-> "Redo",
                                    actionIdToRedo |-> @.undoHistory[@.undoIndex + 1]],
                                   now), now), now),
                              !.by = u]
        /\ lastOp' = "redo"
        /\ UNCHANGED <<now, g, before, origin>>

\* user u's session keeps the merged state; its undo history stays as it is
UserSynced(u, v, merged) ==
    [net EXCEPT !.devices[u].snapshot = merged.state.snapshot,
                !.devices[u].actions = merged.state.actions,
                !.merged = [from |-> merged.from, into |-> u, other |-> v],
                !.syncs = @ + 1,
                !.by = u]

\* user u's session merges what user v's session holds into its own state
userSync ==
    \E u, v \in Users :
        /\ u # v
        /\ net.syncs < net.limits.syncs
        /\ net' = UserSynced(u, v, mergeStates([snapshot |-> net.devices[u].snapshot,
                                                 actions |-> net.devices[u].actions],
                                                [snapshot |-> net.devices[v].snapshot,
                                                 actions |-> net.devices[v].actions]))
        /\ lastOp' = "sync"
        /\ UNCHANGED <<now, g, before, origin>>

ShareNext ==
    \/ clockAdvance
    \/ userAddItem
    \/ userSetName
    \/ userUndo
    \/ userRedo
    \/ userSync

SpecShare == ShareInit /\ [][ShareNext]_vars

----------------------------------------------------------------------------
(* Two signed-in clients of one account and the server's store.  A client   *)
(* adds actions at any time, also while its syncWithServer waits for the    *)
(* server; syncWithServer is followed await by await.                       *)

NClients == 2
MaxClientActions == 1
MaxHistory == 7
MaxFailures == 1

Clients == 1..NClients

\* g.state as the getter returns it
GetState(globals) == [snapshot |-> globals.snapshot, actions |-> globals.actions]

sameState(state1, state2) == state1.snapshot.hash = state2.snapshot.hash

ClientInit(c) ==
    UserInit(c) @@ [pc |-> "idle", syncStatus |-> "sync-pending",
                    pending |-> GetState(EmptyGlobals),
                    inputs |-> [local |-> emptyHash, remote |-> emptyHash]]

ServerInit ==
    /\ now = StartTime
    /\ g = EmptyGlobals
    /\ before = emptyState
    /\ origin = EmptyGlobals
    /\ lastOp = "init"
    /\ net = [clients |-> [c \in Clients |-> ClientInit(c)],
              server |-> GetState(SharedStream),
              failures |-> 0,
              by |-> 0]

\* a handler of client c adds a user action; updateState follows
clientInjectMoney ==
    \E c \in Clients :
        /\ Cardinality(OwnIn(c, net.clients[c].actions)) < MaxClientActions
        /\ Len(net.clients[c].snapshot.lists) > 0
        /\ net' = [net EXCEPT
                      !.clients[c] =
                          ProjectToNow(EnsureList(addUserAction(@,
                              [type |-> "ListInjectMoney",
                               listId |-> @.snapshot.lists[1].id, amount |-> 100],
                              now), now), now),
                      !.by = c]
        /\ lastOp' = "ListInjectMoney"
        /\ UNCHANGED <<now, g, before, origin>>

\* syncWithServer is called and waits for loadRemoteState
syncStart ==
    \E c \in Clients :
        /\ net.clients[c].pc = "idle"
        /\ net' = [net EXCEPT !.clients[c].pc = "loading", !.by = c]
        /\ lastOp' = "syncStart"
        /\ UNCHANGED <<now, g, before, origin>>

\* the end of the try block: g.state = state unless they are the same state
SyncApplied(client, state) ==
    IF ~sameState(state, GetState(client))
    THEN [client EXCEPT !.snapshot = state.snapshot, !.actions = state.actions,
                        !.syncStatus = "sync-success", !.pc = "idle"]
    ELSE [client EXCEPT !.syncStatus = "sync-success", !.pc = "idle"]

\* after mergeStates: a state that differs from the remote one is pushed,
\* and syncWithServer waits for saveRemoteState; pending is the merged state
\* and inputs the hashes of the two states it was merged from
SyncMerged(client, remote, state) ==
    IF ~sameState(state, remote)
    THEN [client EXCEPT !.pc = "saving", !.pending = state,
                        !.inputs = [local |-> client.snapshot.hash,
                                    remote |-> remote.snapshot.hash]]
    ELSE SyncApplied(client, state)

\* loadRemoteState resolves with what the server holds
loadDone ==
    \E c \in Clients :
        /\ net.clients[c].pc = "loading"
        /\ Len(net.clients[c].actions) <= MaxHistory
        /\ Len(net.server.actions) <= MaxHistory
        /\ net' = [net EXCEPT
                      !.clients[c] = SyncMerged(@, net.server,
                                                mergeStates(GetState(@), net.server).state),
                      !.by = c]
        /\ lastOp' = "loadDone"
        /\ UNCHANGED <<now, g, before, origin>>

\* (mutant: the catch block keeps the state that was being pushed)
SyncFailedKeepsMerged(client) ==
    [client EXCEPT !.snapshot = IF client.pc = "saving" THEN client.pending.snapshot ELSE @,
                   !.actions = IF client.pc = "saving" THEN client.pending.actions ELSE @,
                   !.syncStatus = "sync-failure", !.pc = "idle"]

\* catch (e): g.syncStatus = 'sync-failure'
SyncFailed(client) == [client EXCEPT !.syncStatus = "sync-failure", !.pc = "idle"]

\* loadRemoteState rejects
loadFailed ==
    \E c \in Clients :
        /\ net.clients[c].pc = "loading"
        /\ net.failures < MaxFailures
        /\ net' = [net EXCEPT !.clients[c] = SyncFailed(@), !.failures = @ + 1, !.by = c]
        /\ lastOp' = "loadFailed"
        /\ UNCHANGED <<now, g, before, origin>>

\* saveRemoteState resolves: the server holds the pushed state
saveDone ==
    \E c \in Clients :
        /\ net.clients[c].pc = "saving"
        /\ net' = [net EXCEPT !.server = net.clients[c].pending,
                              !.clients[c] = SyncApplied(@, @.pending),
                              !.by = c]
        /\ lastOp' = "saveDone"
        /\ UNCHANGED <<now, g, before, origin>>

\* saveRemoteState rejects, before or after the server stored the state
saveFailed ==
    \E c \in Clients, stored \in BOOLEAN :
        /\ net.clients[c].pc = "saving"
        /\ net.failures < MaxFailures
        /\ net' = [net EXCEPT !.server = IF stored THEN net.clients[c].pending ELSE @,
                              !.clients[c] = SyncFailed(@),
                              !.failures = @ + 1,
                              !.by = c]
        /\ lastOp' = "saveFailed"
        /\ UNCHANGED <<now, g, before, origin>>

ServerNext ==
    \/ clockAdvance
    \/ clientInjectMoney
    \/ syncStart
    \/ loadDone
    \/ loadFailed
    \/ saveDone
    \/ saveFailed

SpecServer == ServerInit /\ [][ServerNext]_vars

\* the same clients when every request to the server succeeds and every
\* client keeps calling syncWithServer
SyncNext ==
    \/ clockAdvance
    \/ clientInjectMoney
    \/ syncStart
    \/ loadDone
    \/ saveDone

\* what enables client c's syncStart, loadDone and saveDone
CanStart(c) == net.clients[c].pc = "idle"
CanLoad(c) ==
    /\ net.clients[c].pc = "loading"
    /\ Len(net.clients[c].actions) <= MaxHistory
    /\ Len(net.server.actions) <= MaxHistory
CanSave(c) == net.clients[c].pc = "saving"

\* client c's call of syncWithServer
SyncStartOf(c) == CanStart(c) /\ syncStart /\ net'.by = c

\* weak fairness of each client's three steps: the call of syncWithServer,
\* and the two awaited requests.  loadDone and saveDone of client c end their
\* own enabling condition and nothing else does, so weak fairness of each is
\* that its enabling condition does not hold for ever
SpecSync ==
    /\ ServerInit
    /\ [][SyncNext]_vars
    /\ \A c \in Clients : WF_vars(SyncStartOf(c)) /\ []<>(~CanLoad(c)) /\ []<>(~CanSave(c))

----------------------------------------------------------------------------
(* The undo and redo buttons at the ends of the undo history: the handlers  *)
(* return before doAction, updateState, save and render                     *)

MaxUndoOps == 6

\* a handler of the session adds a user action
userActionClick ==
    \E newAction \in { [type |-> "ItemNew", listId |-> g.snapshot.lists[1].id],
                        [type |-> "ListInjectMoney", listId |-> g.snapshot.lists[1].id,
                         amount |-> 100] } :
        /\ SessionOps < MaxUndoOps
        /\ Updated(EnsureList(addUserAction(g, newAction, now), now))
        /\ lastOp' = newAction.type
        /\ UNCHANGED <<now, origin, net>>

\* undo(): if (g.undoIndex <= 0) return
undoClick ==
    IF g.undoIndex <= 0
    THEN lastOp' = "undo" /\ UNCHANGED <<now, g, before, origin, net>>
    ELSE /\ SessionOps < MaxUndoOps
         /\ Updated(EnsureList(doAction([g EXCEPT !.undoIndex = @ - 1],
                                         [type |-> "Undo",
                                          actionIdToUndo |-> g.undoHistory[g.undoIndex]],
                                         now), now))
         /\ lastOp' = "undo"
         /\ UNCHANGED <<now, origin, net>>

\* redo(): if (g.undoIndex >= g.undoHistory.length) return
redoClick ==
    IF g.undoIndex >= Len(g.undoHistory)
    THEN lastOp' = "redo" /\ UNCHANGED <<now, g, before, origin, net>>
    ELSE /\ SessionOps < MaxUndoOps
         /\ Updated(EnsureList(doAction([g EXCEPT !.undoIndex = @ + 1],
                                         [type |-> "Redo",
                                          actionIdToRedo |-> g.undoHistory[g.undoIndex + 1]],
                                         now), now))
         /\ lastOp' = "redo"
         /\ UNCHANGED <<now, origin, net>>

UndoNext ==
    \/ clockAdvance
    \/ userActionClick
    \/ undoClick
    \/ redoClick

SpecUndo == Init /\ [][UndoNext]_vars

----------------------------------------------------------------------------
(* One signed-in session with its calls of syncWithServer in flight.  Every *)
(* handler ends in save(), which runs synchronize() up to the first await   *)
(* of a new syncWithServer; the window's focus event does the same.  The    *)
(* state a call holds across its awaits shares g.actions when mergeStates   *)
(* returned g.state itself.                                                 *)

MaxFlights == 2
MaxFlightOps == 3

\* a call of syncWithServer: where it waits, the state it was given by
\* mergeStates, the state it sent to the server, the array its state.actions
\* is (0: an array of its own), and the ids of the actions that handlers
\* added while it waited
NoFlight ==
    [pc |-> "idle", state |-> GetState(EmptyGlobals), sent |-> GetState(EmptyGlobals),
     alias |-> 0, added |-> {}]

\* a call that has returned from its try block
Returned(flight) == [NoFlight EXCEPT !.added = flight.added]

\* what another device of the account has saved: the shared stream and one
\* action of its own
OtherDeviceState ==
    GetState(ProjectToNow(EnsureList(addUserAction(UserInit(2),
        [type |-> "ListInjectMoney", listId |-> UserInit(2).snapshot.lists[1].id,
         amount |-> 100], StartTime), StartTime), StartTime))

FlightInit ==
    /\ now = StartTime
    /\ g = UserInit(1)
    /\ before = emptyState
    /\ origin = EmptyGlobals
    /\ lastOp = "init"
    /\ \E server \in {GetState(SharedStream), OtherDeviceState} :
          net = [local |-> GetState(UserInit(1)),
                 server |-> server,
                 flights |-> [k \in 1..MaxFlights |-> NoFlight],
                 array |-> 1,
                 ops |-> 0,
                 failures |-> 0,
                 by |-> 0]

\* set state(value): the snapshot and a new array of the actions
SetState(globals, state) ==
    [globals EXCEPT !.snapshot = state.snapshot, !.actions = state.actions]

\* synchronize() up to its call of syncWithServer: the merge with
\* localStorage, pushed to localStorage and loaded into g.state where they
\* differ from it
Synchronized(globals, local) ==
    LET state == mergeStates(GetState(globals), local).state
    IN  [local |-> IF ~sameState(state, local) THEN state ELSE local,
         g |-> IF ~sameState(state, GetState(globals)) THEN SetState(globals, state)
               ELSE globals,
         loaded |-> ~sameState(state, GetState(globals))]

\* g.actions.push reaches every state that shares the array
Pushed(flight, pushed) ==
    IF flight.pc = "idle" THEN flight
    ELSE [flight EXCEPT
            !.state.actions = IF flight.alias = net.array THEN @ \o pushed ELSE @,
            !.added = @ \cup { pushed[i].id : i \in 1..Len(pushed) }]

\* the rest of a handler after it changed g to globals: save(), with the new
\* call of syncWithServer waiting for loadRemoteState
Saved(globals) ==
    LET pushed == SubSeq(globals.actions, Len(g.actions) + 1, Len(globals.actions))
        s == Synchronized(globals, net.local)
        free == { k \in 1..MaxFlights : net.flights[k].pc = "idle" }
        new == CHOOSE k \in free : \A j \in free : k <= j
    IN  /\ free # {}
        /\ net.ops < MaxFlightOps
        /\ g' = s.g
        /\ net' = [net EXCEPT
                      !.local = s.local,
                      !.array = IF s.loaded THEN @ + 1 ELSE @,
                      !.flights = [k \in 1..MaxFlights |->
                                      IF k = new THEN [NoFlight EXCEPT !.pc = "loading"]
                                      ELSE Pushed(net.flights[k], pushed)],
                      !.ops = @ + 1,
                      !.by = 0]
        /\ UNCHANGED <<now, before, origin>>

\* a handler adds a user action: addUserAction, updateState, save
flightUserAction ==
    /\ Len(g.snapshot.lists) > 0
    /\ Saved(ProjectToNow(EnsureList(addUserAction(g,
                [type |-> "ListInjectMoney", listId |-> g.snapshot.lists[1].id,
                 amount |-> 100], now), now), now))
    /\ lastOp' = "ListInjectMoney"

flightUndo ==
    /\ g.undoIndex > 0
    /\ Saved(ProjectToNow(EnsureList(doAction([g EXCEPT !.undoIndex = @ - 1],
                [type |-> "Undo", actionIdToUndo |-> g.undoHistory[g.undoIndex]],
                now), now), now))
    /\ lastOp' = "undo"

flightRedo ==
    /\ g.undoIndex < Len(g.undoHistory)
    /\ Saved(ProjectToNow(EnsureList(doAction([g EXCEPT !.undoIndex = @ + 1],
                [type |-> "Redo", actionIdToRedo |-> g.undoHistory[g.undoIndex + 1]],
                now), now), now))
    /\ lastOp' = "redo"

\* window.addEventListener('focus', () => synchronize())
windowFocus ==
    /\ Saved(g)
    /\ lastOp' = "focus"

\* the end of the try block for the call in place k
FlightApplied(k, state, server) ==
    /\ g' = IF ~sameState(state, GetState(g)) THEN SetState(g, state) ELSE g
    /\ net' = [net EXCEPT
                  !.server = server,
                  !.array = IF ~sameState(state, GetState(g)) THEN @ + 1 ELSE @,
                  !.flights[k] = Returned(@),
                  !.by = k]

\* loadRemoteState resolves: mergeStates(g.state, remote); a state that
\* differs from the remote one is sent and the call waits for saveRemoteState
flightLoaded ==
    \E k \in 1..MaxFlights :
        /\ net.flights[k].pc = "loading"
        /\ LET merged == mergeStates(GetState(g), net.server)
           IN  IF ~sameState(merged.state, net.server)
               THEN /\ net' = [net EXCEPT
                                  !.flights[k] = [@ EXCEPT
                                      !.pc = "saving",
                                      !.state = merged.state,
                                      !.sent = merged.state,
                                      !.alias = IF merged.from = "state1" THEN net.array
                                                ELSE 0],
                                  !.by = k]
                    /\ g' = g
               ELSE FlightApplied(k, merged.state, net.server)
        /\ lastOp' = "loadDone"
        /\ UNCHANGED <<now, before, origin>>

\* saveRemoteState resolves: the server holds what was sent
flightSaved ==
    \E k \in 1..MaxFlights :
        /\ net.flights[k].pc = "saving"
        /\ FlightApplied(k, net.flights[k].state, net.flights[k].sent)
        /\ lastOp' = "saveDone"
        /\ UNCHANGED <<now, before, origin>>

\* a request rejects: catch (e) leaves g.state alone
flightFailed ==
    \E k \in 1..MaxFlights, stored \in BOOLEAN :
        /\ net.flights[k].pc # "idle"
        /\ stored => net.flights[k].pc = "saving"
        /\ net.failures < MaxFailures
        /\ net' = [net EXCEPT
                      !.server = IF stored THEN net.flights[k].sent ELSE @,
                      !.flights[k] = NoFlight,
                      !.failures = @ + 1,
                      !.by = k]
        /\ lastOp' = "syncFailed"
        /\ UNCHANGED <<now, g, before, origin>>

FlightNext ==
    \/ clockAdvance
    \/ flightUserAction
    \/ flightUndo
    \/ flightRedo
    \/ windowFocus
    \/ flightLoaded
    \/ flightSaved
    \/ flightFailed

SpecFlight == FlightInit /\ [][FlightNext]_vars

----------------------------------------------------------------------------
(* Claims about the projection *)

RECURSIVE SumSaved(_)
SumSaved(items) ==
    IF items = << >> THEN 0 ELSE Head(items).saved.value + SumSaved(Tail(items))

ListTotal(list) == list.kitty.value + SumSaved(list.items)

\* the money a list holds in s2 is what it held in s1 plus its budget over the
\* time between the two snapshots
Conserved(s1, s2) ==
    /\ Len(s2.lists) = Len(s1.lists)
    /\ \A i \in 1..Len(s1.lists) :
          ListTotal(s2.lists[i]) =
            ListTotal(s1.lists[i])
              + MoneyOver(getAllocatedRate(s1.lists[i].budget),
                          deserializeDate(s2.time) - deserializeDate(s1.time))

\* C1: projection conserves money: in every list, items' saved.value plus
\* kitty.value after a projection is the same sum before it plus
\* allocatedRate * (t - s.time), over one projection and over the whole
\* sequence of projections since the start.
C1_MoneyConserved == Conserved(before, g.snapshot) /\ Conserved(origin.snapshot, g.snapshot)

\* the second projection of a sequence, over a positive time span, has
\* finished one item and part-funded the next
C1_Witness ==
    /\ lastOp = "projection"
    /\ deserializeDate(g.snapshot.time) > deserializeDate(before.time)
    /\ deserializeDate(before.time) > deserializeDate(origin.snapshot.time)
    /\ \E i \in 1..Len(g.snapshot.lists) :
          /\ Len(g.snapshot.lists[i].items) >= 2
          /\ g.snapshot.lists[i].items[1].saved.value > before.lists[i].items[1].saved.value
          /\ g.snapshot.lists[i].items[2].saved.value > before.lists[i].items[2].saved.value
          /\ g.snapshot.lists[i].items[2].saved.value < g.snapshot.lists[i].items[2].price

\* C2: waterfall priority: an item's saved.value is greater after a projection
\* than before it only if every earlier item of its list is fully funded
\* (saved.value = price) in the result.
C2_WaterfallPriority ==
    \A i \in 1..Len(g.snapshot.lists) :
      \A j \in 1..Len(g.snapshot.lists[i].items) :
        g.snapshot.lists[i].items[j].saved.value > before.lists[i].items[j].saved.value
          => \A k \in 1..(j - 1) :
               g.snapshot.lists[i].items[k].saved.value = g.snapshot.lists[i].items[k].price

\* a projection finished the first item, which was short of its price, and
\* the overflow reached the second
C2_Witness ==
    /\ lastOp = "projection"
    /\ \E i \in 1..Len(g.snapshot.lists) :
          /\ Len(g.snapshot.lists[i].items) >= 2
          /\ before.lists[i].items[1].saved.value < before.lists[i].items[1].price
          /\ g.snapshot.lists[i].items[1].saved.value = g.snapshot.lists[i].items[1].price
          /\ g.snapshot.lists[i].items[2].saved.value > before.lists[i].items[2].saved.value

ProjectionTimes(s) == { deserializeDate(s.time) + d * MsPerDay : d \in 0..Horizon }

\* C3: projection is idempotent: projecting the result of projection(s, t) to
\* the same t again changes no field, expectedDate and nextNonlinearity
\* included.  Stated for the snapshots s that a projection has itself
\* produced, which are the ones g.snapshot holds.
C3_ProjectionIdempotent ==
    lastOp = "projection" =>
      \A t \in ProjectionTimes(g.snapshot) :
        projection(projection(g.snapshot, t), t) = projection(g.snapshot, t)

----------------------------------------------------------------------------
(* Claims about the action log and undo/redo *)

\* folding a history one action at a time, skipEffect = false, prior actions
\* = the prefix
RECURSIVE SequentialFoldFrom(_, _, _)
SequentialFoldFrom(state, done, rest) ==
    IF rest = << >> THEN state
    ELSE SequentialFoldFrom(foldAction(state, Head(rest), done, FALSE),
                            Append(done, Head(rest)), Tail(rest))

SequentialFold(history) == SequentialFoldFrom(emptyState, << >>, history)

Content(s) == [lists |-> s.lists, time |-> s.time, nextNonlinearity |-> s.nextNonlinearity]

Prefix(history, n) == SubSeq(history, 1, n)

RECURSIVE Without(_, _)
Without(history, id) ==
    IF history = << >> THEN << >>
    ELSE IF Head(history).id = id THEN Without(Tail(history), id)
    ELSE <<Head(history)>> \o Without(Tail(history), id)

IsUndoRedo(action) == action.type \in {"Undo", "Redo"}

LastAction == g.actions[Len(g.actions)]

WithUndo(x) ==
    LET actionWithoutHash == [type |-> "Undo", actionIdToUndo |-> x,
                              id |-> g.nextId + 1, time |-> serializeDate(now)]
    IN  Append(g.actions, WithHash(actionWithoutHash,
                                   calculateActionHash(g.snapshot.hash, actionWithoutHash)))

\* the actions undo() can name: the live part of this session's undo history
Undoable == { g.undoHistory[k] : k \in 1..g.undoIndex }

\* C5: for every history H the engine builds and every action x in it that
\* undo() can name (an ordinary action, not skipped), reduceActions(H ++
\* [Undo(x)]) has the lists, time and nextNonlinearity of reduceActions(H
\* without x), and x is still in the log; after undo() the snapshot is that
\* one projected to the present.
C5_UndoMeansOmission ==
    /\ LET skip == SkipSet({}, g.actions)
       IN  \A i \in 1..Len(g.actions) :
              LET x == g.actions[i]
                  undone == WithUndo(x.id)
              IN  x.id \in Undoable =>
                      /\ ~IsUndoRedo(x)
                      /\ x.id \notin skip
                      /\ Content(reduceActions(undone))
                            = Content(reduceActions(Without(g.actions, x.id)))
                      /\ undone[i] = x
    /\ lastOp = "undo" =>
          /\ LastAction.type = "Undo"
          /\ \E k \in 1..Len(g.actions) : g.actions[k].id = LastAction.actionIdToUndo
          /\ g.snapshot.lists
                = projection(reduceActions(Without(Prefix(g.actions, Len(g.actions) - 1),
                                                   LastAction.actionIdToUndo)), now).lists

\* undo() has just undone an action that had changed the lists, and another
\* action stands between it and its Undo
C5_Witness ==
    /\ lastOp = "undo"
    /\ LastAction.type = "Undo"
    /\ \E i \in 1..(Len(g.actions) - 2) :
          /\ g.actions[i].id = LastAction.actionIdToUndo
          /\ reduceActions(Prefix(g.actions, i)).lists
                # reduceActions(Prefix(g.actions, i - 1)).lists
    /\ g.snapshot.lists # before.lists

\* the log ends with A, Undo(A), Redo(A), as after doing A, undo(), redo()
EndsWithRoundTrip ==
    /\ Len(g.actions) >= 3
    /\ LET n == Len(g.actions)
       IN  /\ ~IsUndoRedo(g.actions[n - 2])
           /\ g.actions[n - 1].type = "Undo"
           /\ g.actions[n - 1].actionIdToUndo = g.actions[n - 2].id
           /\ g.actions[n].type = "Redo"
           /\ g.actions[n].actionIdToRedo = g.actions[n - 2].id

\* C6 (as stated): action A, then Undo of A, then Redo of A yields a snapshot
\* with the same hash as performing only action A.
C6_RoundTripSameHash ==
    (lastOp = "redo" /\ EndsWithRoundTrip) =>
        /\ reduceActions(g.actions).hash
              = reduceActions(Prefix(g.actions, Len(g.actions) - 2)).hash
        /\ g.snapshot.hash = g.actions[Len(g.actions) - 2].hash

\* C6 (amended): action A, then Undo of A, then Redo of A yields a snapshot
\* with the same lists, time and nextNonlinearity as performing only action
\* A; its hash is the hash of the Redo action, the last of the log, and
\* differs from the hash after only A.
C6_RoundTripContent ==
    (lastOp = "redo" /\ EndsWithRoundTrip) =>
        /\ Content(reduceActions(g.actions))
              = Content(reduceActions(Prefix(g.actions, Len(g.actions) - 2)))
        /\ reduceActions(g.actions).hash = LastAction.hash
        /\ g.snapshot.hash = historyHash(g.actions)
        /\ g.snapshot.hash # g.actions[Len(g.actions) - 2].hash

\* redo() has just brought back an action that had changed the lists
C6_Witness ==
    /\ lastOp = "redo"
    /\ EndsWithRoundTrip
    /\ g.snapshot.lists # before.lists
    /\ reduceActions(Prefix(g.actions, Len(g.actions) - 2)).lists
          # reduceActions(Prefix(g.actions, Len(g.actions) - 3)).lists

HashTracksLog(history) ==
    \A n \in 1..Len(history) :
        reduceActions(Prefix(history, n)).hash = history[n].hash

\* C13: for every non-empty history H, whatever its actions (New,
\* MigrateState with its payload, skipped actions, Undo, Redo),
\* reduceActions(H).hash is the hash field of the last action of H; stated
\* for the session's log and each of its prefixes.
C13_SnapshotHashTracksLog == HashTracksLog(g.actions)

----------------------------------------------------------------------------
(* Claims about merging *)

History(d) == net.devices[d].actions

Ids(history) == [i \in 1..Len(history) |-> history[i].id]

IsPrefix(h1, h2) == Len(h1) <= Len(h2) /\ Prefix(h2, Len(h1)) = h1

\* C8: for any two devices' histories A and B (a common prefix or none,
\* equal timestamps included), reduceActions(mergeHistories(A, B)).hash =
\* reduceActions(mergeHistories(B, A)).hash.
C8_MergeCommutes ==
    \A d, e \in Devices :
        reduceActions(mergeHistories(History(d), History(e)).history).hash
            = reduceActions(mergeHistories(History(e), History(d)).history).hash

\* C9: for any three devices' histories A, B, C from a common prefix,
\* merge(merge(A, B), C), merge(A, merge(B, C)) and merge(merge(C, A), B) end
\* with the same hash and hold the same sequence of action ids.
C9_MergeConverges ==
    \A a, b, c \in Devices :
        (a # b /\ b # c /\ a # c
         /\ History(a)[1].id = History(b)[1].id /\ History(b)[1].id = History(c)[1].id) =>
            LET ab_c == mergeHistories(mergeHistories(History(a), History(b)).history,
                                       History(c)).history
                a_bc == mergeHistories(History(a),
                                       mergeHistories(History(b), History(c)).history).history
                ca_b == mergeHistories(mergeHistories(History(c), History(a)).history,
                                       History(b)).history
            IN  /\ historyHash(ab_c) = historyHash(a_bc)
                /\ historyHash(ab_c) = historyHash(ca_b)
                /\ Ids(ab_c) = Ids(a_bc)
                /\ Ids(ab_c) = Ids(ca_b)

StateOf(d) == [snapshot |-> net.devices[d].snapshot, actions |-> net.devices[d].actions]

\* merging A and B, B being A with more actions appended, returns B itself
\* both ways round, and mergeStates returns B's state as it is
FastForward(A, stateA, B, stateB) ==
    /\ mergeHistories(A, B) = [history |-> B, from |-> "history2"]
    /\ mergeHistories(B, A) = [history |-> B, from |-> "history1"]
    /\ mergeStates(stateA, stateB) = [state |-> stateB, from |-> "state2"]
    /\ mergeStates(stateB, stateA) = [state |-> stateB, from |-> "state1"]

\* C10 (as stated): if B is A with extra actions appended, A possibly empty,
\* mergeHistories(A, B) and mergeHistories(B, A) both return the array B with
\* nothing re-hashed, and mergeStates returns B's state without re-reducing.
C10_FastForwardAlsoFromEmpty ==
    \A e \in Devices :
        /\ FastForward(<< >>, [snapshot |-> emptyState, actions |-> << >>],
                       History(e), StateOf(e))
        /\ \A d \in Devices :
              (IsPrefix(History(d), History(e)) /\ Len(History(d)) < Len(History(e))) =>
                  FastForward(History(d), StateOf(d), History(e), StateOf(e))

\* C10 (amended): if B is a non-empty A with extra actions appended,
\* mergeHistories(A, B) and mergeHistories(B, A) both return the array B with
\* nothing re-hashed, and mergeStates returns B's state without re-reducing;
\* from the empty history the merge builds a new array with B's actions,
\* none re-hashed, and mergeStates reduces it anew.
C10_FastForward ==
    /\ \A d, e \in Devices :
          (IsPrefix(History(d), History(e)) /\ Len(History(d)) < Len(History(e))) =>
              FastForward(History(d), StateOf(d), History(e), StateOf(e))
    /\ \A e \in Devices :
          /\ mergeHistories(<< >>, History(e)) = [history |-> History(e), from |-> "merged"]
          /\ mergeStates([snapshot |-> emptyState, actions |-> << >>], StateOf(e)).from
                = "reduced"
    /\ (lastOp = "sync" /\ net.merged.from = "state2") =>
          net.devices[net.merged.into] = [net.devices[net.merged.other] EXCEPT
                                             !.nextId = net.devices[net.merged.into].nextId]

\* a device has just synced with one that was ahead of it by an action, and
\* took that device's state as it was
C10_Witness ==
    /\ lastOp = "sync"
    /\ net.merged.from = "state2"
    /\ \E d \in Devices :
          /\ d # net.merged.into
          /\ IsPrefix(History(d), History(net.merged.into))
          /\ Len(History(d)) < Len(History(net.merged.into))
          /\ Len(History(d)) > 0

MergedOf(A, B) == mergeHistories(A, B).history

SameOutcome(h1, h2) == Ids(h1) = Ids(h2) /\ historyHash(h1) = historyHash(h2)

\* C11: merge is idempotent: mergeHistories(A, A) is A itself, and merging
\* mergeHistories(A, B) again with B or with A gives the same sequence of
\* action ids and the same final hash as mergeHistories(A, B).
C11_MergeIdempotent ==
    \A d, e \in Devices :
        /\ mergeHistories(History(d), History(d)) =
              [history |-> History(d), from |-> "history1"]
        /\ SameOutcome(MergedOf(MergedOf(History(d), History(e)), History(e)),
                       MergedOf(History(d), History(e)))
        /\ SameOutcome(MergedOf(MergedOf(History(d), History(e)), History(d)),
                       MergedOf(History(d), History(e)))

\* a device holds the result of a merge that interleaved two histories and
\* re-chained the hashes, and the device it merged with has not moved since
C11_Witness ==
    /\ lastOp = "sync"
    /\ net.merged.from = "reduced"
    /\ Len(History(net.merged.into)) > Len(History(net.merged.other))
    /\ \E i \in 1..Len(History(net.merged.other)) :
          History(net.merged.other)[i].hash # History(net.merged.into)[i].hash

\* C20: in every history the devices reach through doAction and merging,
\* the stream a device bootstrapped on its own included, a New or
\* MigrateState action stands only at the start of the history.
C20_NewOnlyAtStart ==
    \A d \in Devices : \A i \in 2..Len(net.devices[d].actions) :
        net.devices[d].actions[i].type \notin {"New", "MigrateState"}

----------------------------------------------------------------------------
(* Claims about sessions that share a stream *)

Log(u) == net.devices[u].actions

IdSet(history) == { history[i].id : i \in 1..Len(history) }

Undone(history, id) ==
    \E i \in 1..Len(history) :
        /\ history[i].type = "Undo" /\ history[i].actionIdToUndo = id
        /\ \A j \in (i + 1)..Len(history) :
              ~(history[j].type = "Redo" /\ history[j].actionIdToRedo = id)

ItemsOfSnapshot(snapshot) ==
    UNION { { snapshot.lists[i].items[j] : j \in 1..Len(snapshot.lists[i].items) } :
            i \in 1..Len(snapshot.lists) }

\* places i < j of user u's log where one user's ItemNew is followed by
\* another user's ItemSetName of that item, the edit itself not undone
EditedAdds(u) ==
    { p \in (1..Len(Log(u))) \X (1..Len(Log(u))) :
        /\ p[1] < p[2]
        /\ Log(u)[p[1]].type = "ItemNew"
        /\ Log(u)[p[2]].type = "ItemSetName"
        /\ Log(u)[p[2]].itemId = Log(u)[p[1]].id
        /\ ~Undone(Log(u), Log(u)[p[2]].id)
        /\ \E x, y \in Users : x # y /\ p[1] \in OwnIn(x, Log(u)) /\ p[2] \in OwnIn(y, Log(u)) }

\* C15: X adds item A and Y edits A.  While X's add is undone, the snapshot
\* has no item A although Y's edit is still in the log; once the add is
\* redone, item A is in the snapshot again and carries Y's edit.
C15_UndoRedoKeepsEdit ==
    \A u \in Users : \A p \in EditedAdds(u) :
        IF Undone(Log(u), Log(u)[p[1]].id)
        THEN \A item \in ItemsOfSnapshot(net.devices[u].snapshot) :
                 item.id # Log(u)[p[1]].id
        ELSE \E item \in ItemsOfSnapshot(net.devices[u].snapshot) :
                 item.id = Log(u)[p[1]].id /\ item.name = Log(u)[p[2]].name

\* X's log holds X's add, Y's edit, X's Undo of the add and X's Redo of it, in
\* this order, and the item is back with Y's name
C15_Witness ==
    \E u \in Users : \E p \in EditedAdds(u) :
        /\ p[1] \in OwnIn(u, Log(u))
        /\ \E i, j \in OwnIn(u, Log(u)) :
              /\ p[2] < i /\ i < j
              /\ Log(u)[i].type = "Undo" /\ Log(u)[i].actionIdToUndo = Log(u)[p[1]].id
              /\ Log(u)[j].type = "Redo" /\ Log(u)[j].actionIdToRedo = Log(u)[p[1]].id
        /\ \E item \in ItemsOfSnapshot(net.devices[u].snapshot) :
              item.id = Log(u)[p[1]].id /\ item.name = "Tent"

\* the ids of the actions user u entered (not Undo, not Redo) that are in
\* u's log and not undone there
OwnStanding(u) ==
    { Log(u)[i].id : i \in { k \in OwnIn(u, Log(u)) :
                               /\ Log(u)[k].type \notin {"Undo", "Redo"}
                               /\ ~Undone(Log(u), Log(u)[k].id) } }

\* the places of u's own Undo actions whose target is still undone
OwnOpenUndos(u) ==
    { i \in OwnIn(u, Log(u)) :
        Log(u)[i].type = "Undo" /\ Undone(Log(u), Log(u)[i].actionIdToUndo) }

Greatest(S) == CHOOSE x \in S : \A y \in S : y <= x

\* undo() appends an Undo of the latest action its own user entered that is
\* not undone; redo() appends a Redo of the action its user undid last
UndoTargetsOwnLatest ==
    /\ lastOp' = "undo" =>
          LET u == net'.by
              appended == net'.devices[u].actions[Len(net'.devices[u].actions)]
          IN  /\ Len(net'.devices[u].actions) = Len(Log(u)) + 1
              /\ appended.type = "Undo"
              /\ OwnStanding(u) # {}
              /\ appended.actionIdToUndo = Greatest(OwnStanding(u))
    /\ lastOp' = "redo" =>
          LET u == net'.by
              appended == net'.devices[u].actions[Len(net'.devices[u].actions)]
          IN  /\ Len(net'.devices[u].actions) = Len(Log(u)) + 1
              /\ appended.type = "Redo"
              /\ OwnOpenUndos(u) # {}
              /\ appended.actionIdToRedo = Log(u)[Greatest(OwnOpenUndos(u))].actionIdToUndo

\* C18: undo is session-local and ordered: each undo() of a session appends an
\* Undo of the most recent not-yet-undone action that this session added
\* through addUserAction, never another session's action; each redo()
\* re-applies the undone actions in the opposite order.
C18_UndoSessionLocal == [][UndoTargetsOwnLatest]_vars

\* user u's log holds two actions of u with another user's action between
\* them, then u's Undo of the later, Undo of the earlier, Redo of the earlier
\* and Redo of the later
C18_Witness ==
    \E u \in Users :
      \E i, j, k \in 1..Len(Log(u)) :
        /\ i < k /\ k < j /\ j + 4 = Len(Log(u))
        /\ {i, j} \subseteq OwnIn(u, Log(u))
        /\ Log(u)[i].type = "ItemNew" /\ Log(u)[j].type = "ItemSetName"
        /\ \E v \in Users \ {u} : k \in OwnIn(v, Log(u))
        /\ Log(u)[j + 1].type = "Undo" /\ Log(u)[j + 1].actionIdToUndo = Log(u)[j].id
        /\ Log(u)[j + 2].type = "Undo" /\ Log(u)[j + 2].actionIdToUndo = Log(u)[i].id
        /\ Log(u)[j + 3].type = "Redo" /\ Log(u)[j + 3].actionIdToRedo = Log(u)[i].id
        /\ Log(u)[j + 4].type = "Redo" /\ Log(u)[j + 4].actionIdToRedo = Log(u)[j].id

\* the two console.assert conditions of the first pass of reduceActions,
\* from a given skip set on
RECURSIVE AssertsHold(_, _)
AssertsHold(skip, history) ==
    IF history = << >> THEN TRUE
    ELSE /\ Head(history).type = "Undo" => Head(history).actionIdToUndo \notin skip
         /\ Head(history).type = "Redo" => Head(history).actionIdToRedo \in skip
         /\ AssertsHold(SkipStep(skip, Head(history)), Tail(history))

\* C19: in every history the sessions reach by addUserAction, undo, redo and
\* merging, the first pass of reduceActions never meets an Undo whose target
\* is already in the skip set, nor a Redo whose target is not in it.
C19_SkipSetWellFormed ==
    \A u \in Users : AssertsHold({}, Log(u))

----------------------------------------------------------------------------
(* Claims about single folds *)

\* one action of every list and item type whose listId, itemId or
\* targetListId names nothing in the session's snapshot
DanglingActions ==
    { [type |-> "ListDelete", listId |-> NoId],
      [type |-> "ListSetName", listId |-> NoId, newName |-> "Bike"],
      [type |-> "ListSetBudget", listId |-> NoId,
       budget |-> [dollars |-> 1461, unit |-> "/month"]],
      [type |-> "ListInjectMoney", listId |-> NoId, amount |-> 100],
      [type |-> "ItemNew", listId |-> NoId],
      [type |-> "ItemDelete", itemId |-> NoId],
      [type |-> "ItemSetName", itemId |-> NoId, name |-> "Tent"],
      [type |-> "ItemSetPrice", itemId |-> NoId, price |-> 48],
      [type |-> "ItemSetNote", itemId |-> NoId, note |-> "blue"],
      [type |-> "ItemPurchase", itemId |-> NoId, actualPrice |-> 40],
      [type |-> "ItemRedistributeMoney", itemId |-> NoId] }
    \cup { [type |-> "ItemMove", itemId |-> i, targetListId |-> NoId, targetIndex |-> 0] :
              i \in ItemIds \cup {NoId} }
    \cup { [type |-> "ItemMove", itemId |-> NoId, targetListId |-> l, targetIndex |-> 0] :
              l \in ListIds }

\* C14: folding a list or item action of any type whose listId, itemId or
\* targetListId is absent from the snapshot yields the same lists as
\* projection(snapshot, action.time), and the action's hash.
C14_MissingReferenceNoOp ==
    \A a \in DanglingActions :
        /\ doAction(g, a, now).snapshot.lists = projection(g.snapshot, now).lists
        /\ doAction(g, a, now).snapshot.hash = historyHash(doAction(g, a, now).actions)

Capped(snapshot) ==
    \A item \in ItemsOfSnapshot(snapshot) : item.saved.value <= item.price

\* a handler has folded an ItemSetPrice whose price is below what the item had
\* saved at the action's time: in the fold's result the item holds exactly
\* its new price and the list holds as much money as before
Reconciled ==
    lastOp' = "ItemSetPrice" =>
        LET action == g'.actions[Len(g'.actions)]
            atActionTime == projection(g.snapshot, now)
        IN  \A i \in 1..Len(atActionTime.lists) :
              \A j \in 1..Len(atActionTime.lists[i].items) :
                (/\ atActionTime.lists[i].items[j].id = action.itemId
                 /\ atActionTime.lists[i].items[j].saved.value > action.price)
                => /\ before'.lists[i].items[j].price = action.price
                   /\ before'.lists[i].items[j].saved.value = action.price
                   /\ ListTotal(before'.lists[i]) = ListTotal(atActionTime.lists[i])

\* C16: after every fold and after every projection each item has
\* saved.value <= price; an ItemSetPrice below the saved amount leaves the
\* item with exactly its price in the same fold, the excess staying in the list.
C16_FundedCap ==
    [](Capped(before) /\ Capped(g.snapshot)) /\ [][Reconciled]_vars

\* the last action set a price of 48 on an item that had saved more than 48
C16_Witness ==
    /\ lastOp = "ItemSetPrice"
    /\ LET action == g.actions[Len(g.actions)]
           earlier == projection(reduceActions(SubSeq(g.actions, 1, Len(g.actions) - 1)),
                                 deserializeDate(action.time))
       IN  /\ \E item \in ItemsOfSnapshot(earlier) :
                 item.id = action.itemId /\ item.saved.value > action.price
           /\ \E item \in ItemsOfSnapshot(before) :
                 item.id = action.itemId /\ item.saved.value = action.price

\* what the budget of list i brought in between the two snapshots
Income(s1, s2, i) ==
    MoneyOver(getAllocatedRate(s1.lists[i].budget),
              deserializeDate(s2.time) - deserializeDate(s1.time))

\* C17: debt is paid first: when a list's kitty.value is negative, a
\* projection raises no item's saved.value as long as the resulting
\* kitty.value is negative, and the items together receive no more than what
\* is left of the income once the debt has reached zero.
C17_DebtPaidFirst ==
    \A i \in 1..Len(before.lists) :
        before.lists[i].kitty.value < 0 =>
          /\ g.snapshot.lists[i].kitty.value < 0 =>
                \A j \in 1..Len(before.lists[i].items) :
                    g.snapshot.lists[i].items[j].saved.value
                      <= before.lists[i].items[j].saved.value
          /\ SumSaved(g.snapshot.lists[i].items) - SumSaved(before.lists[i].items)
                <= Max(0, before.lists[i].kitty.value + Income(before, g.snapshot, i))

\* a projection over a day in which a list in debt earned money, is still in
\* debt, and holds an item short of its price
C17_Witness ==
    /\ lastOp = "projection"
    /\ \E i \in 1..Len(before.lists) :
          /\ before.lists[i].kitty.value < 0
          /\ g.snapshot.lists[i].kitty.value < 0
          /\ g.snapshot.lists[i].kitty.value > before.lists[i].kitty.value
          /\ \E j \in 1..Len(before.lists[i].items) :
                before.lists[i].items[j].saved.value < before.lists[i].items[j].price

----------------------------------------------------------------------------
(* Claims about failures *)

\* C21: an unknown budget unit is fatal and atomic: no snapshot ever holds a
\* list whose budget unit is neither '/month' nor '/day', because the fold
\* that would leave one throws; and the handler in which it throws leaves
\* g.snapshot, g.actions, undoHistory and undoIndex as they were.
C21_UnknownUnitAtomic ==
    /\ [](~ProjectionThrows(g.snapshot.lists))
    /\ [][lastOp' = "threw" =>
            /\ g'.snapshot = g.snapshot
            /\ g'.actions = g.actions
            /\ g'.undoHistory = g.undoHistory
            /\ g'.undoIndex = g.undoIndex]_vars

\* a ListSetBudget with unit '/week' has thrown in a session that has an
\* undo history
C21_Witness ==
    /\ lastOp = "threw"
    /\ g.undoIndex > 0
    /\ g.nextId > Len(g.actions)

\* C22: whenever reading, parsing, upgrading or synchronizing the stored
\* state throws during loadState, in any mode, loadState leaves g.actions
\* equal to one freshly created New action and g.snapshot equal to its fold:
\* no lists, and the hash of that action.
C22_LoadFallback ==
    (lastOp = "loadState" /\ net.load.threw) =>
        /\ Len(g.actions) = 1
        /\ g.actions[1].type = "New"
        /\ g.actions[1].time = serializeDate(now)
        /\ g.actions[1].hash = calculateActionHash(emptyHash, g.actions[1])
        /\ g.snapshot = foldAction(emptyState, g.actions[1], << >>, FALSE)
        /\ g.snapshot.lists = << >>
        /\ g.snapshot.hash = g.actions[1].hash

\* loadState in online mode found no stored state: mergeStates threw
C22_Witness ==
    /\ lastOp = "loadState"
    /\ net.load.threw
    /\ net.load.mode = "online"
    /\ net.load.stored = "absent"

\* a syncWithServer of client c ends in its catch block
SyncFailureStep ==
    lastOp' \in {"loadFailed", "saveFailed"} =>
        LET c == net'.by
        IN  /\ net'.clients[c].snapshot = net.clients[c].snapshot
            /\ net'.clients[c].actions = net.clients[c].actions
            /\ net'.clients[c].syncStatus = "sync-failure"
            /\ (/\ lastOp' = "saveFailed"
                /\ net.clients[c].inputs.local = net'.clients[c].snapshot.hash
                /\ net.clients[c].inputs.remote = net'.server.snapshot.hash)
               => mergeStates(GetState(net'.clients[c]), net'.server).state
                    = net.clients[c].pending

\* C23: a failed sync leaves the local state untouched: when loadRemoteState
\* or saveRemoteState rejects, g.snapshot and g.actions are what they were,
\* syncStatus is 'sync-failure', and a retry on the same local and remote
\* state computes the same merged state.
C23_FailedSyncKeepsLocal == [][SyncFailureStep]_vars

\* saveRemoteState has rejected while pushing a merged state that holds an
\* action of each client, and the local and remote state are still those the
\* merge started from
C23_Witness ==
    /\ lastOp = "saveFailed"
    /\ LET client == net.clients[net.by]
       IN  /\ client.syncStatus = "sync-failure"
           /\ client.inputs.local = client.snapshot.hash
           /\ client.inputs.remote = net.server.snapshot.hash
           /\ \A c \in Clients : OwnIn(c, client.pending.actions) # {}
           /\ Len(client.actions) < Len(client.pending.actions)

\* both clients and the server hold histories with the same last hash and
\* the same action ids, and no client is pushing a state
Consistent ==
    \A c \in Clients :
        /\ historyHash(net.clients[c].actions) = historyHash(net.server.actions)
        /\ [i \in 1..Len(net.clients[c].actions) |-> net.clients[c].actions[i].id]
             = [i \in 1..Len(net.server.actions) |-> net.server.actions[i].id]
        /\ net.clients[c].pc # "saving"

----------------------------------------------------------------------------
(* Claims about item edits *)

\* the item with this id, and the place of the list that holds it
ItemWithId(snapshot, id) == CHOOSE item \in ItemsOfSnapshot(snapshot) : item.id = id
HasItem(snapshot, id) == \E item \in ItemsOfSnapshot(snapshot) : item.id = id
ItemIdsOf(snapshot) == { item.id : item \in ItemsOfSnapshot(snapshot) }

\* the snapshot the last handler's fold started from, projected to the time
\* of the action it folded
AtActionTime == projection(g.snapshot, deserializeDate(LastAction'.time))

\* a handler folded an ItemMove: the fold's result holds the same item ids as
\* the projection to the action's time, each with at least the amount saved
MoveKeepsMoney ==
    lastOp' = "ItemMove" =>
        /\ ItemIdsOf(before') = ItemIdsOf(AtActionTime)
        /\ \A id \in ItemIdsOf(AtActionTime) :
              ItemWithId(before', id).saved.value >= ItemWithId(AtActionTime, id).saved.value
        /\ \A i \in 1..Len(before'.lists) : \A j, k \in 1..Len(before'.lists[i].items) :
              before'.lists[i].items[j].id = before'.lists[i].items[k].id => j = k

\* C25: folding ItemMove, within one list or across two lists and for any
\* targetIndex, never decreases the saved.value of the moved item or of any
\* other item relative to projection(snapshot, action.time), and the set of
\* item ids over all lists is unchanged.
C25_MoveKeepsMoney == [][MoveKeepsMoney]_vars

\* an item that holds money was moved to another list
C25_Witness ==
    /\ lastOp = "ItemMove"
    /\ LET action == LastAction
           earlier == projection(reduceActions(SubSeq(g.actions, 1, Len(g.actions) - 1)),
                                 deserializeDate(action.time))
       IN  /\ HasItem(earlier, action.itemId)
           /\ ItemWithId(earlier, action.itemId).saved.value > 0
           /\ findItem(earlier.lists, action.itemId)[1] # findList(earlier.lists, action.targetListId)
           /\ findItem(before.lists, action.itemId)[1] = findList(before.lists, action.targetListId)

----------------------------------------------------------------------------
(* Claims about foldAction on every type of action *)

\* one new action of every type but Undo and Redo on the lists and items of
\* the session's snapshot
EffectInputs ==
    { [type |-> "New"], [type |-> "ListNew", name |-> "Wish list"],
      [type |-> "MigrateState", state |-> g.snapshot] }
    \cup UNION { { [type |-> "ListDelete", listId |-> l],
                   [type |-> "ListSetName", listId |-> l, newName |-> "Bike"],
                   [type |-> "ListSetBudget", listId |-> l,
                    budget |-> [dollars |-> 1461, unit |-> "/month"]],
                   [type |-> "ListInjectMoney", listId |-> l, amount |-> 100],
                   [type |-> "ListInjectMoney", listId |-> l, amount |-> -60],
                   [type |-> "ItemNew", listId |-> l] } : l \in ListIds }
    \cup UNION { { [type |-> "ItemDelete", itemId |-> i],
                   [type |-> "ItemSetName", itemId |-> i, name |-> "Tent"],
                   [type |-> "ItemSetPrice", itemId |-> i, price |-> 48],
                   [type |-> "ItemSetNote", itemId |-> i, note |-> "blue"],
                   [type |-> "ItemPurchase", itemId |-> i, actualPrice |-> 40],
                   [type |-> "ItemRedistributeMoney", itemId |-> i] } : i \in ItemIds }
    \cup { [type |-> "ItemMove", itemId |-> i, targetListId |-> l, targetIndex |-> 0] :
              i \in ItemIds, l \in ListIds }

\* an Undo of every action of the history that is in effect and a Redo of
\* every one that is not
UndoRedoInputs ==
    LET skip == SkipSet({}, g.actions)
        targets == { i \in 1..Len(g.actions) :
                        g.actions[i].type \notin {"New", "MigrateState", "Undo", "Redo"} }
    IN  { [type |-> "Undo", actionIdToUndo |-> g.actions[i].id] :
             i \in { k \in targets : g.actions[k].id \notin skip } }
        \cup { [type |-> "Redo", actionIdToRedo |-> g.actions[i].id] :
                  i \in { k \in targets : g.actions[k].id \in skip } }

\* the times of the action: the present, which is the snapshot's time or a
\* day after it, and a day later
FoldTimes == {now, now + MsPerDay}

\* the action as doAction completes it: id, time and the hash chained from
\* the snapshot's
Stamped(newAction, t) ==
    LET actionWithoutHash == newAction @@ [id |-> g.nextId + 1, time |-> serializeDate(t)]
    IN  WithHash(actionWithoutHash, calculateActionHash(g.snapshot.hash, actionWithoutHash))

Folded(newAction, t, skipEffect) ==
    foldAction(g.snapshot, Stamped(newAction, t), g.actions, skipEffect)

\* the money of a snapshot: every list's kitty and every item's saved amount
MoneyOf(snapshot) ==
    [i \in 1..Len(snapshot.lists) |->
        [kitty |-> snapshot.lists[i].kitty.value,
         saved |-> [j \in 1..Len(snapshot.lists[i].items) |->
                       snapshot.lists[i].items[j].saved.value]]]

TotalsOf(snapshot) == [i \in 1..Len(snapshot.lists) |-> ListTotal(snapshot.lists[i])]

\* time = action.time, and a projection to action.time finds no money to move
CurrentAsOf(snapshot, t) ==
    /\ deserializeDate(snapshot.time) = t
    /\ MoneyOf(projection(snapshot, t)) = MoneyOf(snapshot)

\* the time of the last action of the history whose effect is applied
RECURSIVE LastEffectTime(_, _)
LastEffectTime(history, skip) ==
    IF history = << >> THEN emptyState.time
    ELSE IF history[Len(history)].id \in skip
         THEN LastEffectTime(SubSeq(history, 1, Len(history) - 1), skip)
         ELSE history[Len(history)].time

\* C26 as stated: for every action with action.time >= snapshot.time and
\* either value of skipEffect, the snapshot returned by foldAction has
\* time = action.time and monetary values current as of action.time.
C26_FoldProjectsAlways ==
    \A a \in EffectInputs \cup UndoRedoInputs, t \in FoldTimes, skipEffect \in BOOLEAN :
        CurrentAsOf(Folded(a, t, skipEffect), t)

\* C26: an action other than Undo and Redo folded with skipEffect = false
\* gives a snapshot with time = action.time and monetary values current as
\* of action.time: what the budget brought in up to action.time is in the
\* lists before the action's effect applies.  A fold with skipEffect = true
\* leaves the snapshot's time and money as they were, and the fold of an Undo
\* or Redo gives the time of the last action whose effect is applied.
C26_FoldProjectsFirst ==
    /\ \A a \in EffectInputs, t \in FoldTimes :
          /\ CurrentAsOf(Folded(a, t, FALSE), t)
          /\ a.type \in {"ListSetName", "ListSetBudget", "ItemSetName", "ItemSetNote"}
                => TotalsOf(Folded(a, t, FALSE)) = TotalsOf(projection(g.snapshot, t))
    /\ \A a \in EffectInputs \cup UndoRedoInputs, t \in FoldTimes :
          /\ Folded(a, t, TRUE).time = g.snapshot.time
          /\ MoneyOf(Folded(a, t, TRUE)) = MoneyOf(g.snapshot)
    /\ \A a \in UndoRedoInputs :
          Folded(a, now, FALSE).time
             = LastEffectTime(Append(g.actions, Stamped(a, now)),
                              SkipSet({}, Append(g.actions, Stamped(a, now))))

\* the clock is a day ahead of a snapshot whose list has a budget and an
\* item short of its price, and an action of the history can be undone
C26_Witness ==
    /\ deserializeDate(g.snapshot.time) < now
    /\ \E i \in 1..Len(g.snapshot.lists) :
          /\ getAllocatedRate(g.snapshot.lists[i].budget) > 0
          /\ \E j \in 1..Len(g.snapshot.lists[i].items) :
                g.snapshot.lists[i].items[j].saved.value < g.snapshot.lists[i].items[j].price
    /\ UndoRedoInputs # {}

\* C27: foldAction with skipEffect = true returns a snapshot whose hash is
\* action.hash and whose id and lists are identical to the input snapshot,
\* for every action type.
C27_SkippedTouchesOnlyHash ==
    \A a \in EffectInputs \cup UndoRedoInputs, t \in FoldTimes :
        /\ Folded(a, t, TRUE).hash = Stamped(a, t).hash
        /\ Folded(a, t, TRUE).id = g.snapshot.id
        /\ Folded(a, t, TRUE).lists = g.snapshot.lists
        /\ Folded(a, t, TRUE) = [g.snapshot EXCEPT !.hash = Stamped(a, t).hash]

\* an item short of its price in a list with a budget: folding any action
\* but a skipped one a day later changes the lists and the hash
C27_Witness ==
    /\ \E i \in 1..Len(g.snapshot.lists) :
          /\ getAllocatedRate(g.snapshot.lists[i].budget) > 0
          /\ \E j \in 1..Len(g.snapshot.lists[i].items) :
                g.snapshot.lists[i].items[j].saved.value < g.snapshot.lists[i].items[j].price
    /\ \A a \in EffectInputs :
          /\ Folded(a, now + MsPerDay, FALSE).lists # g.snapshot.lists
          /\ Folded(a, now + MsPerDay, TRUE).hash # g.snapshot.hash
    /\ UndoRedoInputs # {}
    /\ lastOp = "undo"

----------------------------------------------------------------------------
(* Claims about the dates a projection gives *)

\* the places of the items of a snapshot that carry a date in expectedDate
Dated(snapshot) ==
    { p \in (1..Len(snapshot.lists)) \X (1..MaxItems) :
        /\ p[2] <= Len(snapshot.lists[p[1]].items)
        /\ snapshot.lists[p[1]].items[p[2]].expectedDate \notin {Null, Never} }

FundedAt(snapshot, p, t) ==
    LET item == projection(snapshot, t).lists[p[1]].items[p[2]]
    IN  item.saved.value = item.price

\* C28: for a snapshot s' = projection(s, t) and an item whose expectedDate d
\* is neither null nor 'never', projecting s' to d makes the item fully
\* funded, and projecting s' to a time u with t <= u < d leaves it with
\* saved.value < price (u = t and u = d less a millisecond are checked: what
\* an item has saved does not decrease with u); also for a list that started
\* with a positive kitty or with debt.
C28_ExpectedDateExact ==
    lastOp = "projection" =>
        \A p \in Dated(g.snapshot) :
            LET d == deserializeDate(g.snapshot.lists[p[1]].items[p[2]].expectedDate)
            IN  /\ FundedAt(g.snapshot, p, d)
                /\ now < d => ~FundedAt(g.snapshot, p, now) /\ ~FundedAt(g.snapshot, p, d - 1)

\* when the budget has paid off the debt a list has at the snapshot's time
PayoffTime(snapshot, list) ==
    IF getAllocatedRate(list.budget) = 0 THEN Infinity
    ELSE deserializeDate(snapshot.time)
           + TimeToSave(-list.kitty.value, getAllocatedRate(list.budget))

\* the discontinuities ahead of a snapshot: every indebted list's pay-off
\* time and the expectedDate of every list's first unfunded item
Discontinuities(snapshot) ==
    { PayoffTime(snapshot, snapshot.lists[i]) :
         i \in { k \in 1..Len(snapshot.lists) : snapshot.lists[k].kitty.value < 0 } }
    \cup { deserializeDate(snapshot.lists[p[1]].items[p[2]].expectedDate) :
              p \in { q \in (1..Len(snapshot.lists)) \X (1..MaxItems) :
                        /\ q[2] <= Len(snapshot.lists[q[1]].items)
                        /\ \A j \in 1..q[2] :
                              (snapshot.lists[q[1]].items[j].saved.value
                                 < snapshot.lists[q[1]].items[j].price) <=> j = q[2] } }

\* C29: in projection(s, t), nextNonlinearity is null when no list has debt
\* or an unfunded item, and otherwise it is the minimum over all lists of the
\* debt-payoff time and the first unfunded item's expectedDate, and it is
\* never earlier than the new snapshot.time t.
C29_NextNonlinearityEarliest ==
    lastOp = "projection" =>
        IF Discontinuities(g.snapshot) = {}
        THEN g.snapshot.nextNonlinearity = Null
        ELSE /\ g.snapshot.nextNonlinearity \notin {Null}
             /\ \A d \in Discontinuities(g.snapshot) :
                   deserializeDate(g.snapshot.nextNonlinearity) <= d
             /\ deserializeDate(g.snapshot.nextNonlinearity) \in Discontinuities(g.snapshot)
             /\ deserializeDate(g.snapshot.nextNonlinearity) >= deserializeDate(g.snapshot.time)

----------------------------------------------------------------------------
(* Claims about the money of a list under edits *)

\* the place of the list the last handler's action names, by its listId or
\* as the owner of its itemId, in the snapshot projected to the action's time
OwningList ==
    IF LastAction'.type = "ListInjectMoney"
    THEN findList(AtActionTime.lists, LastAction'.listId)
    ELSE findItem(AtActionTime.lists, LastAction'.itemId)[1]

\* what the action adds to the money of its list
MoneyAdded ==
    CASE LastAction'.type = "ListInjectMoney" -> LastAction'.amount
      [] LastAction'.type = "ItemPurchase" -> 0 - LastAction'.actualPrice
      [] OTHER -> 0

EditKeepsMoney ==
    lastOp' \in {"ItemDelete", "ItemSetPrice", "ItemRedistributeMoney",
                 "ListInjectMoney", "ItemPurchase"} =>
        /\ OwningList > 0
        /\ Len(before'.lists) = Len(AtActionTime.lists)
        /\ before'.lists[OwningList].id = AtActionTime.lists[OwningList].id
        /\ ListTotal(before'.lists[OwningList])
             = ListTotal(AtActionTime.lists[OwningList]) + MoneyAdded
        /\ \A i \in 1..Len(before'.lists) :
              i # OwningList => ListTotal(before'.lists[i]) = ListTotal(AtActionTime.lists[i])

\* C30: folding ItemDelete, ItemSetPrice or ItemRedistributeMoney on an
\* existing item leaves the owning list's total (the items' saved.value plus
\* kitty.value) equal to its total in projection(snapshot, action.time);
\* ListInjectMoney changes it by exactly amount and ItemPurchase by exactly
\* -actualPrice.
C30_EditsConserveMoney == [][EditKeepsMoney]_vars

\* an item that had saved money, but not the price paid, was purchased from
\* a list that holds another item
C30_Witness ==
    /\ lastOp = "ItemPurchase"
    /\ LET action == LastAction
           earlier == projection(reduceActions(SubSeq(g.actions, 1, Len(g.actions) - 1)),
                                 deserializeDate(action.time))
       IN  /\ HasItem(earlier, action.itemId)
           /\ ItemWithId(earlier, action.itemId).saved.value > 0
           /\ ItemWithId(earlier, action.itemId).saved.value # action.actualPrice
           /\ Len(earlier.lists[findItem(earlier.lists, action.itemId)[1]].items) > 1
           /\ ~HasItem(before, action.itemId)

----------------------------------------------------------------------------
(* Claims about the general merge *)

Sorted(history) ==
    \A i \in 1..(Len(history) - 1) : history[i].time <= history[i + 1].time

\* the actions of `sub`, compared without their hashes, occur in `history`
\* in the same order
RECURSIVE IsSubsequence(_, _)
IsSubsequence(sub, history) ==
    IF sub = << >> THEN TRUE
    ELSE IF history = << >> THEN FALSE
    ELSE IF ContentToHash(Head(sub)) = ContentToHash(Head(history))
         THEN IsSubsequence(Tail(sub), Tail(history))
         ELSE IsSubsequence(sub, Tail(history))

\* follows the two iterators along the output `out` of the merge: where the
\* two next actions differ in id and tie in time, the next output action is
\* the one of the first-supplied history
RECURSIVE LeftFirstOnTies(_, _, _)
LeftFirstOnTies(left, right, out) ==
    IF left = << >> \/ right = << >> \/ out = << >> THEN TRUE
    ELSE /\ (Head(left).id # Head(right).id /\ Head(left).time = Head(right).time)
               => Head(out).id = Head(left).id
         /\ LeftFirstOnTies(IF Head(out).id = Head(left).id THEN Tail(left) ELSE left,
                            IF Head(out).id = Head(right).id THEN Tail(right) ELSE right,
                            Tail(out))

\* the pairs of devices whose histories, both sorted by time, go through the
\* general merge
GeneralMerges ==
    { p \in Devices \X Devices :
        /\ mergeHistories(History(p[1]), History(p[2])).from = "merged"
        /\ Sorted(History(p[1])) /\ Sorted(History(p[2])) }

\* C31: when both inputs of mergeHistories are sorted by non-decreasing
\* action.time and the general merge runs, the output is sorted by
\* non-decreasing action.time, each input is a subsequence of the output, and
\* when the two next actions differ in id but tie in time the action of the
\* first-supplied history is emitted first.
C31_MergedTimeOrdered ==
    \A p \in GeneralMerges :
        /\ Sorted(MergedOf(History(p[1]), History(p[2])))
        /\ IsSubsequence(History(p[1]), MergedOf(History(p[1]), History(p[2])))
        /\ IsSubsequence(History(p[2]), MergedOf(History(p[1]), History(p[2])))
        /\ LeftFirstOnTies(History(p[1]), History(p[2]), MergedOf(History(p[1]), History(p[2])))

\* two sorted histories whose own actions tie in time go through the general
\* merge, and so do two whose own actions were added a day apart
C31_Witness ==
    /\ \E p \in GeneralMerges :
          \E i \in 1..Len(History(p[1])), j \in 1..Len(History(p[2])) :
              /\ History(p[1])[i].id # History(p[2])[j].id
              /\ History(p[1])[i].time = History(p[2])[j].time
              /\ History(p[1])[i].id \notin { History(p[2])[k].id : k \in 1..Len(History(p[2])) }
              /\ History(p[2])[j].id \notin { History(p[1])[k].id : k \in 1..Len(History(p[1])) }
    /\ \E p \in GeneralMerges :
          \E i \in 1..Len(History(p[1])) :
              History(p[1])[i].time > History(p[2])[Len(History(p[2]))].time

\* every action's hash is chained from the hash of the action before it
WellChained(history) ==
    \A i \in 1..Len(history) :
        history[i].hash = calculateActionHash(IF i = 1 THEN emptyHash ELSE history[i - 1].hash,
                                              history[i])

\* the actions of an input that stand in the output at the place they had,
\* after the same actions
Unmoved(input, output) ==
    { i \in 1..Min(Len(input), Len(output)) :
        \A k \in 1..i : ContentToHash(input[k]) = ContentToHash(output[k]) }

\* C32: in the output of the general merge every action's hash equals
\* calculateActionHash(hash of the preceding output action, or emptyHash for
\* the first, the action without its hash), while its id, time, type and
\* payload are those of an input action; actions whose position did not
\* change keep their original hash.
C32_MergedRechained ==
    \A d, e \in Devices :
        mergeHistories(History(d), History(e)).from = "merged" =>
            LET output == MergedOf(History(d), History(e))
            IN  /\ WellChained(output)
                /\ \A i \in 1..Len(output) :
                      \E input \in {History(d), History(e)} : \E k \in 1..Len(input) :
                          ContentToHash(output[i]) = ContentToHash(input[k])
                /\ \A i \in Unmoved(History(d), output) : output[i].hash = History(d)[i].hash
                /\ \A i \in Unmoved(History(e), output) : output[i].hash = History(e)[i].hash

\* a general merge kept the hashes of the shared actions and gave a new hash
\* to an action of the second history that now follows one of the first
C32_Witness ==
    \E d, e \in Devices :
        /\ mergeHistories(History(d), History(e)).from = "merged"
        /\ WellChained(History(d)) /\ WellChained(History(e))
        /\ Unmoved(History(e), MergedOf(History(d), History(e))) # {}
        /\ \E i \in 1..Len(MergedOf(History(d), History(e))), k \in 1..Len(History(e)) :
              /\ ContentToHash(MergedOf(History(d), History(e))[i]) = ContentToHash(History(e)[k])
              /\ MergedOf(History(d), History(e))[i].hash # History(e)[k].hash
              /\ i > k

NoRepeatedId(history) ==
    \A i, j \in 1..Len(history) : history[i].id = history[j].id => i = j

\* C33: for any two histories A and B, each without repeated ids and with a
\* well-formed hash chain, every action id occurring in A or in B occurs
\* exactly once in mergeHistories(A, B), and no other id occurs; also where a
\* shared action sits at different relative positions in A and B or where
\* actions tie in time.
C33_MergeDuplicateFree ==
    \A d, e \in Devices :
        (/\ NoRepeatedId(History(d)) /\ NoRepeatedId(History(e))
         /\ WellChained(History(d)) /\ WellChained(History(e))) =>
            /\ IdSet(MergedOf(History(d), History(e))) = IdSet(History(d)) \cup IdSet(History(e))
            /\ NoRepeatedId(MergedOf(History(d), History(e)))

----------------------------------------------------------------------------
(* Claims about the cost of a replay *)

\* the number of calls of foldAction that reduceActions(history) makes, those
\* of every reduceActions that a fold of an Undo or Redo with
\* skipEffect = false enters included
RECURSIVE FoldCalls(_)
RECURSIVE FoldCallsFrom(_, _, _)
FoldCallsFrom(history, skip, i) ==
    IF i > Len(history) THEN 0
    ELSE 1 + (IF history[i].type \in {"Undo", "Redo"} /\ history[i].id \notin skip
              THEN FoldCalls(SubSeq(history, 1, i)) ELSE 0)
           + FoldCallsFrom(history, skip, i + 1)

FoldCalls(history) == FoldCallsFrom(history, SkipSet({}, history), 1)

\* C34: reduceActions(H) calls foldAction exactly once per action of H and
\* never re-enters reduceActions: the id of every Undo and Redo action in H
\* is itself in the skip set, so it is folded with skipEffect = true.
C34_NoNestedReplay ==
    \A u \in Users :
        /\ \A i \in 1..Len(Log(u)) :
              Log(u)[i].type \in {"Undo", "Redo"} => Log(u)[i].id \in SkipSet({}, Log(u))
        /\ FoldCalls(Log(u)) = Len(Log(u))

\* a log that holds two Undo actions and a Redo, after a merge with the
\* other session's log
C34_Witness ==
    /\ lastOp = "sync"
    /\ \E u \in Users :
          /\ Cardinality({ i \in 1..Len(Log(u)) : Log(u)[i].type = "Undo" }) >= 2
          /\ \E i \in 1..Len(Log(u)) : Log(u)[i].type = "Redo"
          /\ \E v \in Users : v # u /\ OwnIn(v, Log(u)) # {}

----------------------------------------------------------------------------
(* Claims about the undo history *)

\* what the buttons and addUserAction do to the undo history in one step
UndoHistoryStep ==
    /\ (lastOp' = "undo" /\ g.undoIndex = 0) => g' = g
    /\ (lastOp' = "redo" /\ g.undoIndex = Len(g.undoHistory)) => g' = g
    /\ lastOp' \in {"ItemNew", "ListInjectMoney"} =>
          /\ g'.undoIndex = Len(g'.undoHistory)
          /\ g'.undoIndex = g.undoIndex + 1
          /\ SubSeq(g'.undoHistory, 1, g.undoIndex) = SubSeq(g.undoHistory, 1, g.undoIndex)
          /\ g'.undoHistory[g'.undoIndex] = LastAction'.id
    /\ (lastOp' = "redo" /\ LastAction.type \notin {"Undo", "Redo"}
          /\ lastOp \in {"ItemNew", "ListInjectMoney"}) => g' = g

\* C35: after any sequence of addUserAction, undo and redo,
\* 0 <= undoIndex <= undoHistory.length; undo() with undoIndex = 0 and
\* redo() with undoIndex = undoHistory.length append no action and leave
\* g.snapshot unchanged; immediately after any addUserAction the redo tail is
\* discarded, so redo() appends nothing until the next undo().
C35_UndoIndexBounds ==
    /\ [](0 <= g.undoIndex /\ g.undoIndex <= Len(g.undoHistory))
    /\ [][UndoHistoryStep]_vars

\* redo was pressed right after a user action that followed two undos: the
\* undone actions' ids are gone from the undo history and nothing was appended
C35_Witness ==
    /\ lastOp = "redo"
    /\ LastAction.type \notin {"Undo", "Redo"}
    /\ g.undoIndex = Len(g.undoHistory)
    /\ Len(g.actions) >= 2
    /\ g.actions[Len(g.actions) - 1].type = "Undo"
    /\ g.actions[Len(g.actions) - 2].type = "Undo"
    /\ \E i \in 1..Len(g.actions) :
          /\ g.actions[i].type = "Undo"
          /\ \A k \in 1..Len(g.undoHistory) : g.undoHistory[k] # g.actions[i].actionIdToUndo

----------------------------------------------------------------------------
(* Claims about the amounts and rates a projection gives *)

\* every list's kitty and every item's saved, value and rate
AmountsOf(snapshot) ==
    [i \in 1..Len(snapshot.lists) |->
        [kitty |-> snapshot.lists[i].kitty,
         saved |-> [j \in 1..Len(snapshot.lists[i].items) |->
                       snapshot.lists[i].items[j].saved]]]

\* C36: for every snapshot s and times s.time <= t1 <= t2,
\* projection(projection(s, t1), t2) and projection(s, t2) agree on every
\* item's saved.value and saved.rate and on every list's kitty.value and
\* kitty.rate.
C36_StepwiseProjection ==
    \A t1, t2 \in ProjectionTimes(g.snapshot) :
        t1 <= t2 =>
            AmountsOf(projection(projection(g.snapshot, t1), t2))
               = AmountsOf(projection(g.snapshot, t2))

\* a snapshot with a list in debt that a day's budget pays off and an item
\* that the second day funds in part: the projection in two steps passes
\* through the state in which the debt is just paid
C36_Witness ==
    /\ lastOp = "init"
    /\ \E i \in 1..Len(g.snapshot.lists) :
          LET t == deserializeDate(g.snapshot.time)
          IN  /\ g.snapshot.lists[i].kitty.value < 0
              /\ Len(g.snapshot.lists[i].items) > 0
              /\ projection(g.snapshot, t + MsPerDay).lists[i].kitty.value = 0
              /\ projection(g.snapshot, t + MsPerDay).lists[i].items[1].saved.value
                    = g.snapshot.lists[i].items[1].saved.value
              /\ projection(g.snapshot, t + 2 * MsPerDay).lists[i].items[1].saved.value
                    > g.snapshot.lists[i].items[1].saved.value
              /\ projection(g.snapshot, t + 2 * MsPerDay).lists[i].items[1].saved.value
                    < g.snapshot.lists[i].items[1].price

RECURSIVE SumRates(_)
SumRates(items) ==
    IF items = << >> THEN 0 ELSE Head(items).saved.rate + SumRates(Tail(items))

\* the items of a list that receive money as time passes
Earning(list) == { j \in 1..Len(list.items) : list.items[j].saved.rate # 0 }

\* the items of a list that are not fully funded
Unfunded(list) == { j \in 1..Len(list.items) : list.items[j].saved.value # list.items[j].price }

RatesConserved(list) ==
    /\ SumRates(list.items) + list.kitty.rate = getAllocatedRate(list.budget)
    /\ Cardinality(Earning(list)) <= 1
    /\ \A j \in Earning(list) :
          /\ j \in Unfunded(list)
          /\ \A k \in 1..(j - 1) : k \notin Unfunded(list)
          /\ list.kitty.value >= 0

\* C37: after any projection, in every list the sum of all item.saved.rate
\* plus kitty.rate equals the list's allocatedRate; at most one item has a
\* non-zero saved.rate and, if one has, it is the first item that is not
\* fully funded and the list is not in debt.
C37_RateConservation ==
    /\ lastOp = "projection" =>
          \A i \in 1..Len(g.snapshot.lists) : RatesConserved(g.snapshot.lists[i])
    /\ \A t \in ProjectionTimes(g.snapshot) :
          \A i \in 1..Len(g.snapshot.lists) :
             RatesConserved(projection(g.snapshot, t).lists[i])

\* a projection has left a list with a funded first item and a second item
\* that takes the whole rate, next to a list in debt whose kitty takes it
C37_Witness ==
    /\ lastOp = "projection"
    /\ Len(g.snapshot.lists) = 2
    /\ Len(g.snapshot.lists[1].items) >= 2
    /\ 1 \notin Unfunded(g.snapshot.lists[1])
    /\ Earning(g.snapshot.lists[1]) = {2}
    /\ g.snapshot.lists[1].kitty.rate = 0
    /\ g.snapshot.lists[2].kitty.value < 0
    /\ g.snapshot.lists[2].kitty.rate = getAllocatedRate(g.snapshot.lists[2].budget)
    /\ g.snapshot.lists[2].kitty.rate > 0

----------------------------------------------------------------------------
(* Claims about user actions while syncWithServer waits *)

\* g.snapshot shows the amounts that the replay of g.actions gives
Reflected ==
    AmountsOf(projection(g.snapshot, now)) = AmountsOf(projection(reduceActions(g.actions), now))

\* the call in place k has just returned from its try block
Completed(k) ==
    /\ lastOp \in {"loadDone", "saveDone"}
    /\ net.by = k
    /\ net.flights[k].pc = "idle"

\* C38: if addUserAction/doAction runs while syncWithServer is suspended at
\* an await (loadRemoteState or saveRemoteState), in both the fast-forward
\* and the general-merge case, then once syncWithServer resumes and
\* completes, that action is still in g.actions and its effect is still
\* reflected in g.snapshot.
C38_NoActionLostInFlight ==
    \A k \in 1..MaxFlights :
        (Completed(k) /\ net.flights[k].added # {}) =>
            /\ net.flights[k].added \subseteq IdSet(g.actions)
            /\ Reflected

\* C39: at every point where no synchronous handler is executing,
\* g.snapshot.hash equals the hash of the last action of g.actions and
\* g.actions is a well-formed hash chain, over all interleavings of
\* addUserAction, undo, redo, synchronize and syncWithServer completions.
C39_SnapshotAndLogInStep ==
    /\ g.snapshot.hash = historyHash(g.actions)
    /\ WellChained(g.actions)

=============================================================================
